---- MODULE Spec2Model ----
(***************************************************************************)
(* Model of the plan -> execute -> verify -> replan pipeline of the        *)
(* AI Ops Assistant: PlannerAgent (agents/planner.py), ExecutorAgent       *)
(* (agents/executor.py), VerifierAgent (agents/verifier.py) and the        *)
(* run_task handler (main.py).                                             *)
(*                                                                         *)
(* Python values are represented by strings, sequences and records.  The   *)
(* Python value None and an absent dictionary key are both written None.   *)
(* Tool outputs and step arguments are named by tokens; the tables below   *)
(* give the fields of each token.                                          *)
(***************************************************************************)
EXTENDS Integers, Sequences, FiniteSets, TLC

VARIABLES
    pc,           \* position of the thread of control of the run
    pass,         \* 1 = first pipeline pass, 2 = replan pass
    plan,         \* the plan of the current pass
    stepState,    \* execute: per step, queued / running / finished / collected
    future,       \* execute: per step, the value its future holds
    results,      \* execute: the pre-sized result slots (line 17)
    step_results, \* the list execute returned for the current pass
    updated,      \* retry_failed: the list being built
    retrying,     \* retry_failed: a re-run tool call is in progress
    final,        \* the verification verify returned for the current pass
    first,        \* the first pass's plan/steps/final, kept during a replan
    response,     \* what run_task returned
    hist          \* observation only: call counts and per-step tool outcomes

vars == <<pc, pass, plan, stepState, future, results, step_results, updated,
          retrying, final, first, response, hist>>

---------------------------------------------------------------------------
(* Bounds of the model *)

\* longest plan the planner oracle proposes for the request's task
MaxSteps == 2

\* longest plan the planner oracle proposes for a corrective task
MaxReplanSteps == 1

\* longest plan handed to execute alone
MaxExecSteps == 3

\* longest plan handed to retry_failed or verify alone
MaxRetrySteps == 2

\* longest result list handed to retry_failed alone
MaxResults == 3

\* longest steps list the planner oracle writes when create_plan is
\* studied alone
MaxPlannerSteps == 2

\* longest plan handed to verify when its narration is studied
MaxNarrateSteps == 2

\* the call counters of the observation record stop counting here
CallCap == 5

\* longest plan handed to execute when its worker pool is studied; more
\* steps than the pool has workers
MaxPoolSteps == 5

---------------------------------------------------------------------------
(* Values *)

None == "None"

\* tools/registry.py: the keys of TOOL_REGISTRY
TOOL_REGISTRY == {"github_search", "weather_current", "llm_generate"}

\* executor.py line 18: min(len(steps), 4)
PoolLimit == 4

Min(a, b) == IF a <= b THEN a ELSE b

Range(s) == {s[i] : i \in 1..Len(s)}

\* a mapping of step arguments; "{}" is the empty mapping
EmptyArgs == "{}"

\* what a registry callable can return for a call (tokens, see the tables)
ToolOutputs(tool) ==
    CASE tool = "github_search"   -> {"gh_3"}
      [] tool = "weather_current" -> {"wx_full"}
      [] tool = "llm_generate"    -> {"text_hello"}
      [] OTHER                    -> {}

\* more of what the registry callables can return: a search with items
\* that have no star count, a star count of 0 or no full_name, a search with
\* no item, a forecast with no temperature and no wind, other texts
AllToolOutputs(tool) ==
    CASE tool = "github_search"   -> {"gh_3", "gh_mixed", "gh_none"}
      [] tool = "weather_current" -> {"wx_full", "wx_bare"}
      [] tool = "llm_generate"    -> {"text_hello", "text_two", "text_empty"}
      [] OTHER                    -> {}

\* str(exc) of what a registry callable can raise
ToolErrors(tool) == {"HTTPError"}

\* the whole milliseconds a tool call can take
ToolDurations == {7}

---------------------------------------------------------------------------
(* ExecutorAgent._run_step *)

StepResult(step, status, output, error, ms) ==
    [step_id |-> step.id, tool |-> step.tool, args |-> step.args,
     status |-> status, output |-> output, error |-> error,
     duration_ms |-> ms]

\* an empty slot of the pre-sized results list
NoResult ==
    [step_id |-> None, tool |-> None, args |-> None,
     status |-> None, output |-> None, error |-> None, duration_ms |-> 0]

\* a variant that reports an unknown tool with no message
UnknownToolResultNoMessage(step) ==
    StepResult(step, "error", None, None, 0)

\* lines 60-68: the tool name is not in the registry
UnknownToolResult(step) ==
    StepResult(step, "error", None, "Unknown tool: " \o step.tool, 0)

\* lines 69-87: the results the call of a registered tool can end in
ToolCallResults(step) ==
    {StepResult(step, "success", o, None, ms) :
        o \in ToolOutputs(step.tool), ms \in ToolDurations}
    \cup {StepResult(step, "error", None, e, ms) :
        e \in ToolErrors(step.tool), ms \in ToolDurations}

\* a variant that takes every tool name for a registered one
IsKnownToolAlways(step) == TRUE

\* line 60: tool_name not in self.registry
IsKnownTool(step) == step.tool \in TOOL_REGISTRY

---------------------------------------------------------------------------
(* ExecutorAgent.execute *)

NumSteps == Len(plan.steps)

Running == {i \in 1..Len(stepState) : stepState[i] = "running"}

\* line 14: a plan of at most one step runs inline on the calling thread
RunsInline(n) == n <= 1

\* a variant with one worker per step
MaxWorkersOnePerStep(n) == n

\* line 18: max_workers = min(len(steps), 4)
MaxWorkers(n) == Min(n, PoolLimit)

\* how many tool calls execute can have in progress at once
Capacity == IF pc = "execute_inline" THEN 1 ELSE MaxWorkers(NumSteps)

\* a variant that stores results in the order of completion
StoreResultInCompletionOrder(slots, idx, r) ==
    LET free == {i \in 1..Len(slots) : slots[i] = NoResult}
        k == CHOOSE i \in free : \A j \in free : i <= j
    IN  [slots EXCEPT ![k] = r]

\* line 26: results[idx] = future.result()
StoreResult(slots, idx, r) == [slots EXCEPT ![idx] = r]

\* a variant in which the first failed step ends the collection
FilledSlotsUntilFailure(slots) ==
    LET bad == {i \in 1..Len(slots) : slots[i].status = "error"}
    IN  IF bad = {} THEN slots
        ELSE SubSeq(slots, 1, (CHOOSE i \in bad : \A j \in bad : i <= j) - 1)

\* line 36: [result for result in results if result is not None]
FilledSlots(slots) == SelectSeq(slots, LAMBDA r : r # NoResult)

\* observation: one more call, counted up to CallCap
Count(n) == Min(n + 1, CallCap)

Bump(counts, i) == [counts EXCEPT ![i] = Count(@)]

\* run_task calls executor.execute(plan): lines 13-22, the slots are
\* allocated and every step is submitted
ExecuteCall ==
    /\ pc = "call_execute"
    /\ pc' = IF RunsInline(NumSteps) THEN "execute_inline" ELSE "execute_pool"
    /\ stepState' = [i \in 1..NumSteps |-> "queued"]
    /\ future' = [i \in 1..NumSteps |-> NoResult]
    /\ results' = [i \in 1..NumSteps |-> NoResult]
    /\ hist' = [hist EXCEPT !.nExecute = Count(@),
                            !.execCalls = [i \in 1..NumSteps |-> 0],
                            !.repairCalls = [i \in 1..NumSteps |-> 0],
                            !.ownOk = {},
                            !.outOfOrder = FALSE]
    /\ UNCHANGED <<pass, plan, step_results, updated, retrying, final, first,
                   response>>

\* _run_step is entered for step i (a pool worker, or the calling thread when
\* inline): an unknown tool returns at once, a known tool's call begins
StartStep(i) ==
    /\ pc \in {"execute_inline", "execute_pool"}
    /\ stepState[i] = "queued"
    /\ Cardinality(Running) < Capacity
    /\ pc = "execute_inline" => \A j \in 1..(i - 1) : stepState[j] = "finished"
    /\ IF IsKnownTool(plan.steps[i])
       THEN /\ stepState' = [stepState EXCEPT ![i] = "running"]
            /\ hist' = [hist EXCEPT !.execCalls = Bump(@, i)]
            /\ UNCHANGED future
       ELSE /\ stepState' = [stepState EXCEPT ![i] = "finished"]
            /\ future' = [future EXCEPT ![i] = UnknownToolResult(plan.steps[i])]
            /\ UNCHANGED hist
    /\ UNCHANGED <<pc, pass, plan, results, step_results, updated, retrying,
                   final, first, response>>

\* the tool call of step i returns or raises; _run_step returns its result
FinishStep(i) ==
    /\ pc \in {"execute_inline", "execute_pool"}
    /\ stepState[i] = "running"
    /\ \E r \in ToolCallResults(plan.steps[i]) :
          /\ future' = [future EXCEPT ![i] = r]
          /\ hist' = [hist EXCEPT !.ownOk =
                        IF r.status = "success" THEN @ \cup {i} ELSE @]
    /\ stepState' = [stepState EXCEPT ![i] = "finished"]
    /\ UNCHANGED <<pc, pass, plan, results, step_results, updated, retrying,
                   final, first, response>>

\* lines 23-26: as_completed yields a finished future, its result is stored
\* in the slot of its step
Collect(i) ==
    /\ pc = "execute_pool"
    /\ stepState[i] = "finished"
    /\ stepState' = [stepState EXCEPT ![i] = "collected"]
    /\ results' = StoreResult(results, i, future[i])
    /\ hist' = [hist EXCEPT !.outOfOrder =
                  @ \/ \E j \in 1..(i - 1) : stepState[j] # "collected"]
    /\ UNCHANGED <<pc, pass, plan, future, step_results, updated, retrying,
                   final, first, response>>

\* a variant that returns as soon as one future was collected
ExecuteReturnWithoutWaiting ==
    /\ pc = "execute_pool"
    /\ \E i \in 1..NumSteps : stepState[i] = "collected"
    /\ step_results' = FilledSlots(results)
    /\ pc' = "call_verify"
    /\ UNCHANGED <<pass, plan, stepState, future, results, updated, retrying,
                   final, first, response, hist>>

\* line 36: every future was collected, the pool is shut down, execute returns
ExecuteReturn ==
    /\ pc = "execute_pool"
    /\ \A i \in 1..NumSteps : stepState[i] = "collected"
    /\ step_results' = FilledSlots(results)
    /\ pc' = "call_verify"
    /\ UNCHANGED <<pass, plan, stepState, future, results, updated, retrying,
                   final, first, response, hist>>

\* line 15: the list comprehension ends, execute returns its list
InlineReturn ==
    /\ pc = "execute_inline"
    /\ \A i \in 1..NumSteps : stepState[i] = "finished"
    /\ step_results' = future
    /\ pc' = "call_verify"
    /\ UNCHANGED <<pass, plan, stepState, future, results, updated, retrying,
                   final, first, response, hist>>

---------------------------------------------------------------------------
(* ExecutorAgent.retry_failed *)

\* a variant that takes the step at the head of the plan, whatever the id
StepMapIndexFirstStep(steps, id) == IF steps = << >> THEN 0 ELSE 1

\* line 44: step_map = {step["id"]: step for step in steps}; a later step
\* with the same id replaces an earlier one.  0 when the id is not a key.
StepMapIndex(steps, id) ==
    LET hits == {i \in 1..Len(steps) : steps[i].id = id}
    IN  IF hits = {} THEN 0 ELSE CHOOSE i \in hits : \A j \in hits : i >= j

\* a variant that re-runs every result
NeedsRetryAlways(result) == TRUE

\* a variant in which the agent remembers that it has retried before
NeedsRetryOnlyFirstTime(result) == result.status = "error" /\ hist.applied = 0

\* line 46: the result is re-run only when its status is error
NeedsRetry(result) == result.status = "error"

\* the position of the input the loop of line 45 is at
RetryPos == Len(updated) + 1

\* lines 50-53: a success, or an error whose step id is not in the plan,
\* is appended unchanged
RetryPassThrough ==
    /\ pc = "retry"
    /\ RetryPos <= Len(step_results)
    /\ LET r == step_results[RetryPos]
       IN  /\ ~NeedsRetry(r) \/ StepMapIndex(plan.steps, r.step_id) = 0
           /\ updated' = Append(updated, r)
    /\ UNCHANGED <<pc, pass, plan, stepState, future, results, step_results,
                   retrying, final, first, response, hist>>

\* lines 46-49: _run_step(step) is entered for the step found by id
RetryStart ==
    /\ pc = "retry"
    /\ ~retrying
    /\ RetryPos <= Len(step_results)
    /\ LET r == step_results[RetryPos]
           j == StepMapIndex(plan.steps, r.step_id)
       IN  /\ NeedsRetry(r)
           /\ j # 0
           /\ IF IsKnownTool(plan.steps[j])
              THEN /\ retrying' = TRUE
                   /\ hist' = [hist EXCEPT !.repairCalls = Bump(@, j)]
                   /\ UNCHANGED updated
              ELSE /\ updated' = Append(updated, UnknownToolResult(plan.steps[j]))
                   /\ UNCHANGED <<retrying, hist>>
    /\ UNCHANGED <<pc, pass, plan, stepState, future, results, step_results,
                   final, first, response>>

\* a variant that runs a failed step again until it succeeds
RetryFinishUntilSuccess ==
    /\ pc = "retry"
    /\ retrying
    /\ LET j == StepMapIndex(plan.steps, step_results[RetryPos].step_id)
       IN  \E r \in ToolCallResults(plan.steps[j]) :
              /\ updated' = IF r.status = "success"
                            THEN Append(updated, r) ELSE updated
              /\ hist' = [hist EXCEPT !.ownOk =
                            IF r.status = "success" THEN @ \cup {j} ELSE @]
    /\ retrying' = FALSE
    /\ UNCHANGED <<pc, pass, plan, stepState, future, results, step_results,
                   final, first, response>>

\* a variant that also writes the new result into the input list
RetryFinishInPlace ==
    /\ pc = "retry"
    /\ retrying
    /\ LET j == StepMapIndex(plan.steps, step_results[RetryPos].step_id)
       IN  \E r \in ToolCallResults(plan.steps[j]) :
              /\ updated' = Append(updated, r)
              /\ step_results' = [step_results EXCEPT ![RetryPos] = r]
              /\ hist' = [hist EXCEPT !.ownOk =
                            IF r.status = "success" THEN @ \cup {j} ELSE @]
    /\ retrying' = FALSE
    /\ UNCHANGED <<pc, pass, plan, stepState, future, results,
                   final, first, response>>

\* line 49: the re-run tool call returns or raises, its result is appended
RetryFinish ==
    /\ pc = "retry"
    /\ retrying
    /\ LET j == StepMapIndex(plan.steps, step_results[RetryPos].step_id)
       IN  \E r \in ToolCallResults(plan.steps[j]) :
              /\ updated' = Append(updated, r)
              /\ hist' = [hist EXCEPT !.ownOk =
                            IF r.status = "success" THEN @ \cup {j} ELSE @]
    /\ retrying' = FALSE
    /\ UNCHANGED <<pc, pass, plan, stepState, future, results, step_results,
                   final, first, response>>

\* lines 38-54 again: the caller hands the returned list back,
\* retry_failed(plan, retry_failed(plan, step_results))
RetryAgain ==
    /\ pc = "retry"
    /\ ~retrying
    /\ RetryPos > Len(step_results)
    /\ hist.applied = 0
    /\ step_results' = updated
    /\ updated' = << >>
    /\ hist' = [hist EXCEPT !.applied = 1, !.before = step_results,
                            !.repairCalls = [i \in 1..NumSteps |-> 0]]
    /\ UNCHANGED <<pc, pass, plan, stepState, future, results, retrying,
                   final, first, response>>

---------------------------------------------------------------------------
(* Tool outputs: the fields of each output token.  An optional number is a *)
(* sequence: << >> for None, <<n>> for the number n.                       *)

RepoItem(name, full_name, url, stars) ==
    [name |-> name, full_name |-> full_name, url |-> url, stars |-> stars]

\* isinstance(output, dict): every registry callable returns a mapping
IsDict(o) ==
    o \in {"gh_3", "gh_mixed", "gh_none", "gh_7", "wx_full", "wx_bare",
           "text_hello", "text_two", "text_empty"}

\* output.get("source_url"): response.url of the request the tool made
SourceUrl(o) ==
    CASE o = "gh_3"     -> "https://api.github.com/search/repositories?q=x"
      [] o = "gh_mixed" -> "https://api.github.com/search/repositories?q=y"
      [] o = "gh_none"  -> "https://api.github.com/search/repositories?q=none"
      [] o = "gh_7"     -> "https://api.github.com/search/repositories?q=r&per_page=7"
      [] o = "wx_full"  -> "https://api.open-meteo.com/v1/forecast?latitude=18"
      [] o = "wx_bare"  -> "https://api.open-meteo.com/v1/forecast?latitude=0"
      [] OTHER          -> None

\* "items" in output
HasItems(o) == o \in {"gh_3", "gh_mixed", "gh_none", "gh_7"}

\* output.get("items", [])
Items(o) ==
    CASE o = "gh_3" ->
           << RepoItem("a", "o/a", "https://github.com/o/a", <<100>>),
              RepoItem("b", "o/b", "https://github.com/o/b", <<50>>),
              RepoItem("c", "o/c", "https://github.com/o/c", <<10>>) >>
      [] o = "gh_mixed" ->
           << RepoItem("z", None, "https://github.com/o/z", <<0>>),
              RepoItem("a", "o/a", "https://github.com/o/a", << >>),
              RepoItem("y", "o/y", "https://github.com/o/y", <<5>>),
              RepoItem("x", "o/x", "https://github.com/o/x", <<1>>) >>
      [] o = "gh_7" ->
           [i \in 1..7 |->
              RepoItem("r" \o ToString(i), "o/r" \o ToString(i),
                       "https://github.com/o/r" \o ToString(i), <<80 - 10 * i>>)]
      [] OTHER -> << >>

\* output.get("query")
Query(o) ==
    CASE o = "gh_3"     -> "x"
      [] o = "gh_mixed" -> "y"
      [] o = "gh_none"  -> "none"
      [] o = "gh_7"     -> "r"
      [] OTHER          -> None

\* output.get("total_count"): how many repositories the search matched
TotalCount(o) ==
    CASE o = "gh_3"     -> <<3>>
      [] o = "gh_mixed" -> <<4>>
      [] o = "gh_none"  -> <<0>>
      [] o = "gh_7"     -> <<1234>>
      [] OTHER          -> << >>

\* item.get("language")
Language(it) == IF it.name \in {"a", "r1"} THEN "Python" ELSE None

\* llm_generate.py line 12: the characters client.chat_text returned
RawText(o) ==
    CASE o = "text_hello" ->
           <<" ", "H", "e", "l", "l", "o", " ", "W", "o", "r", "l", "d", "\n">>
      [] o = "text_two" ->
           <<"H", "i", " ", " ", "a", "l", "l", "\t", "n", "o", "w">>
      [] o = "text_empty" -> <<" ">>
      [] OTHER -> << >>

\* the fields of a weather_current output; the location is always
\* "<name>, <country>" and the summary falls back to "Unknown conditions"
Weather(o) ==
    CASE o = "wx_full" ->
           [location |-> "Pune, India", weather_summary |-> "Clear sky",
            temperature_c |-> <<30>>, wind_kph |-> <<12>>]
      [] o = "wx_bare" ->
           [location |-> "None, None", weather_summary |-> "Unknown conditions",
            temperature_c |-> << >>, wind_kph |-> << >>]
      [] OTHER ->
           [location |-> None, weather_summary |-> None,
            temperature_c |-> << >>, wind_kph |-> << >>]

---------------------------------------------------------------------------
(* Python helpers used by VerifierAgent.verify *)

\* truthiness of a string-or-None value
Truthy(x) == x # None /\ x # ""

\* x or y
Or(x, y) == IF Truthy(x) THEN x ELSE y

IsSpace(c) == c \in {" ", "\n", "\t"}

RECURSIVE LStrip(_)
LStrip(cs) ==
    IF cs # << >> /\ IsSpace(Head(cs)) THEN LStrip(Tail(cs)) ELSE cs

RECURSIVE RStrip(_)
RStrip(cs) ==
    IF cs # << >> /\ IsSpace(cs[Len(cs)])
    THEN RStrip(SubSeq(cs, 1, Len(cs) - 1))
    ELSE cs

\* str.strip()
Strip(cs) == RStrip(LStrip(cs))

\* len(text.split()): the number of maximal runs of non-space characters
WordCount(cs) ==
    Cardinality({i \in 1..Len(cs) :
                    ~IsSpace(cs[i]) /\ (i = 1 \/ IsSpace(cs[i - 1]))})

\* the string made of the characters cs
RECURSIVE Chars2Str(_)
Chars2Str(cs) == IF cs = << >> THEN "" ELSE Head(cs) \o Chars2Str(Tail(cs))

\* sep.join(parts)
RECURSIVE Join(_, _)
Join(parts, sep) ==
    IF parts = << >> THEN ""
    ELSE IF Len(parts) = 1 THEN parts[1]
    ELSE parts[1] \o sep \o Join(Tail(parts), sep)

\* list(dict.fromkeys(xs)): first occurrences, in order
RECURSIVE Dedupe(_)
Dedupe(xs) ==
    IF xs = << >> THEN << >>
    ELSE LET init == Dedupe(SubSeq(xs, 1, Len(xs) - 1))
             x == xs[Len(xs)]
         IN  IF x \in Range(init) THEN init ELSE Append(init, x)

\* the concatenation of a sequence of sequences
RECURSIVE Flatten(_)
Flatten(ss) == IF ss = << >> THEN << >> ELSE Head(ss) \o Flatten(Tail(ss))

\* llm_generate.py line 13: output["text"] = text.strip(), as characters
Text(o) == Strip(RawText(o))

---------------------------------------------------------------------------
(* VerifierAgent._compact_step_results *)

\* how many items of a search output are forwarded to the oracle
CompactLimit == 5

\* verifier.py lines 20-29: the five fields kept of an item; its description
\* is dropped
CompactItem(it) ==
    [name |-> it.name, full_name |-> it.full_name, url |-> it.url,
     stars |-> it.stars, language |-> Language(it)]

\* a variant that forwards every item
CompactOutputAllItems(o) ==
    IF IsDict(o) /\ HasItems(o)
    THEN [kind |-> "compact", raw |-> None, query |-> Query(o),
          total_count |-> TotalCount(o),
          items |-> [i \in 1..Len(Items(o)) |-> CompactItem(Items(o)[i])],
          source_url |-> SourceUrl(o)]
    ELSE [kind |-> "same", raw |-> o, query |-> None, total_count |-> << >>,
          items |-> << >>, source_url |-> None]

\* verifier.py lines 15-37: a mapping with items becomes a new mapping of
\* query, total_count, the first five items and source_url ("compact");
\* every other output, None included, is forwarded as it is ("same")
CompactOutput(o) ==
    IF IsDict(o) /\ HasItems(o)
    THEN [kind |-> "compact", raw |-> None, query |-> Query(o),
          total_count |-> TotalCount(o),
          items |-> [i \in 1..Min(CompactLimit, Len(Items(o))) |->
                       CompactItem(Items(o)[i])],
          source_url |-> SourceUrl(o)]
    ELSE [kind |-> "same", raw |-> o, query |-> None, total_count |-> << >>,
          items |-> << >>, source_url |-> None]

\* verifier.py lines 12-47: a new list of new entries; args and duration_ms
\* are not forwarded
CompactStepResults(rs) ==
    [i \in 1..Len(rs) |->
        [step_id |-> rs[i].step_id, tool |-> rs[i].tool, status |-> rs[i].status,
         output |-> CompactOutput(rs[i].output), error |-> rs[i].error]]

---------------------------------------------------------------------------
(* VerifierAgent.verify: the deterministic part, lines 56 and 61-152 *)

FixedLimitation == "Some tools failed after retry; partial data returned."

\* line 56
Missing(repaired) == SelectSeq(repaired, LAMBDA r : r.status # "success")

\* lines 64-69: the source_url of every mapping output, in result order
SourceUrls(repaired) ==
    LET kept == SelectSeq(repaired,
                          LAMBDA r : IsDict(r.output) /\ Truthy(SourceUrl(r.output)))
    IN  [i \in 1..Len(kept) |-> SourceUrl(kept[i].output)]

\* lines 70-73: the items of every github_search output, in result order
RepoItems(repaired) ==
    Flatten([i \in 1..Len(repaired) |->
               IF IsDict(repaired[i].output) /\ repaired[i].tool = "github_search"
               THEN Items(repaired[i].output) ELSE << >>])

\* lines 74-75: the last weather_current output, None when there is none
WeatherInfo(repaired) ==
    LET hits == {i \in 1..Len(repaired) :
                    IsDict(repaired[i].output) /\ repaired[i].tool = "weather_current"}
    IN  IF hits = {} THEN None
        ELSE repaired[CHOOSE i \in hits : \A j \in hits : i >= j].output

\* a variant that collects the item urls before the source_url values
AllowedSourcesItemsFirst(repaired) ==
    LET kept == SelectSeq(RepoItems(repaired), LAMBDA it : Truthy(it.url))
    IN  Dedupe([i \in 1..Len(kept) |-> kept[i].url] \o SourceUrls(repaired))

\* lines 76-80
AllowedSources(repaired) ==
    LET kept == SelectSeq(RepoItems(repaired), LAMBDA it : Truthy(it.url))
    IN  Dedupe(SourceUrls(repaired) \o [i \in 1..Len(kept) |-> kept[i].url])

\* lines 82-86
ToolsUsed(p) ==
    {p.steps[i].tool : i \in {j \in 1..Len(p.steps) : Truthy(p.steps[j].tool)}}

\* a variant that takes the last successful llm_generate result
SpeechTextOfLastResult(repaired) ==
    LET hits == {i \in 1..Len(repaired) :
                    /\ repaired[i].tool = "llm_generate"
                    /\ repaired[i].status = "success"
                    /\ IsDict(repaired[i].output)}
    IN  IF hits = {} THEN << >>
        ELSE Strip(Text(repaired[CHOOSE i \in hits : \A j \in hits : i >= j].output))

\* lines 88-94: the stripped text of the first successful llm_generate result
\* whose output is a mapping
SpeechText(repaired) ==
    LET hits == {i \in 1..Len(repaired) :
                    /\ repaired[i].tool = "llm_generate"
                    /\ repaired[i].status = "success"
                    /\ IsDict(repaired[i].output)}
    IN  IF hits = {} THEN << >>
        ELSE Strip(Text(repaired[CHOOSE i \in hits : \A j \in hits : i <= j].output))

\* a variant that fires whenever the plan uses the text-generation tool
SingleToolOverridesIfUsed(p, repaired) ==
    "llm_generate" \in ToolsUsed(p) /\ SpeechText(repaired) # << >>

\* lines 87-102
SingleToolOverrides(p, repaired) ==
    ToolsUsed(p) = {"llm_generate"} /\ SpeechText(repaired) # << >>

\* a variant that takes a star count of 0 for a missing one
RepoBitStarsTruthy(it) ==
    LET name == Or(it.full_name, it.name)
    IN  IF it.stars # << >> /\ it.stars # <<0>>
        THEN name \o " (" \o it.url \o ", " \o ToString(it.stars[1]) \o "*)"
        ELSE name \o " (" \o it.url \o ")"

\* lines 108-116; "*" stands for the star character
RepoBit(it) ==
    LET name == Or(it.full_name, it.name)
    IN  IF it.stars # << >>
        THEN name \o " (" \o it.url \o ", " \o ToString(it.stars[1]) \o "*)"
        ELSE name \o " (" \o it.url \o ")"

RepoBits(repaired) ==
    LET its  == RepoItems(repaired)
        kept == SelectSeq(SubSeq(its, 1, Min(3, Len(its))),
                          LAMBDA it : Truthy(Or(it.full_name, it.name)) /\ Truthy(it.url))
    IN  [i \in 1..Len(kept) |-> RepoBit(kept[i])]

\* lines 119-138; "deg" stands for the degree sign
WeatherSentence(o) ==
    LET w == Weather(o)
        details ==
            (IF Truthy(w.weather_summary) THEN <<w.weather_summary>> ELSE << >>)
            \o (IF w.temperature_c # << >>
                THEN <<ToString(w.temperature_c[1]) \o "degC">> ELSE << >>)
            \o (IF w.wind_kph # << >>
                THEN <<"wind " \o ToString(w.wind_kph[1]) \o " kph">> ELSE << >>)
    IN  "Current weather"
        \o (IF Truthy(w.location) THEN " in " \o w.location ELSE "")
        \o (IF Truthy(w.weather_summary) \/ w.temperature_c # << >>
            THEN ": " \o Join(details, ", ") \o "."
            ELSE ".")

\* lines 105-138
NarrationParts(repaired) ==
    (IF RepoBits(repaired) # << >>
     THEN <<"Top repositories: " \o Join(RepoBits(repaired), "; ") \o ".">>
     ELSE << >>)
    \o (IF WeatherInfo(repaired) # None
        THEN <<WeatherSentence(WeatherInfo(repaired))>> ELSE << >>)

\* lines 104 and 139
MultiDomainOverrides(p, repaired) ==
    /\ ToolsUsed(p) \cap {"github_search", "weather_current"} # {}
    /\ NarrationParts(repaired) # << >>

SpeechData(n) == [kind |-> "introduction_speech", word_count |-> <<n>>]

\* a variant that replaces the oracle's limitations by the fixed string
DowngradeReplacingLimitations(v, repaired) ==
    IF Missing(repaired) # << >>
    THEN [v EXCEPT !.limitations = [kind |-> "list", items |-> <<FixedLimitation>>],
                   !.completeness = "partial"]
    ELSE v

\* lines 144-150: the completeness downgrade
Downgrade(v, repaired) ==
    IF Missing(repaired) # << >>
    THEN [v EXCEPT
            !.limitations =
                [kind |-> "list",
                 items |-> Append(IF v.limitations.kind = "list"
                                  THEN v.limitations.items ELSE << >>,
                                  FixedLimitation)],
            !.completeness = "partial"]
    ELSE v

\* lines 61-152: what verify returns for the oracle's object v
Enrich(p, repaired, v) ==
    LET v1 == IF SingleToolOverrides(p, repaired)
              THEN [v EXCEPT
                      !.final_answer = Chars2Str(SpeechText(repaired)),
                      !.data = SpeechData(WordCount(SpeechText(repaired)))]
              ELSE v
        v2 == IF MultiDomainOverrides(p, repaired)
              THEN [v1 EXCEPT !.final_answer = Join(NarrationParts(repaired), " ")]
              ELSE v1
        v3 == [v2 EXCEPT !.sources =
                 IF SingleToolOverrides(p, repaired)
                 THEN << >> ELSE AllowedSources(repaired)]
    IN  Downgrade(v3, repaired)

---------------------------------------------------------------------------
(* VerifierAgent.verify: the call, the oracle, the return *)

NoLimitations == [kind |-> "absent", items |-> << >>]

ListOf(items) == [kind |-> "list", items |-> items]

\* a limitations value that is a string, not a list; iterating it yields
\* its characters
StringOf(chars) == [kind |-> "string", items |-> chars]

OracleData == [kind |-> "oracle_data", word_count |-> << >>]

\* what client.chat_json can do for the verifier: raise, return a value that
\* is not a JSON object, or return an object
OracleVerification(kind, completeness, limitations) ==
    [kind |-> kind, final_answer |-> "oracle answer", data |-> OracleData,
     sources |-> <<"https://oracle.example/made-up">>,
     limitations |-> limitations, completeness |-> completeness]

NoFinal == OracleVerification("none", None, NoLimitations)

\* the fields of a Verification (kind only tells how the oracle call ended)
AsFinal(v) == [v EXCEPT !.kind = "object"]

\* the oracle's answers explored in a whole run
RunVerifications ==
    {OracleVerification("raise", None, NoLimitations),
     OracleVerification("nonobject", None, NoLimitations)}
    \cup {OracleVerification("object", c, l) :
            c \in {"complete", "partial"},
            l \in {NoLimitations, ListOf(<<"no forecast">>)}}

\* the oracle's answers explored for verify alone
AgentVerifications ==
    {OracleVerification("raise", None, NoLimitations),
     OracleVerification("nonobject", None, NoLimitations)}
    \cup {OracleVerification("object", c, l) :
            c \in {"complete", "partial", "unsure", None},
            l \in {NoLimitations, ListOf(<< >>), ListOf(<<"no forecast">>),
                   StringOf(<<"n", "a">>)}}

\* the task text of the request
Task == "task"

\* main.py lines 798 and 810: the task text given to the planner in the
\* current pass
PlannerTask == IF pass = 1 THEN Task ELSE first.replan_task

\* a variant that hands the verifier the task text the planner got
VerifierTaskOfPlanner == PlannerTask

\* main.py lines 800 and 812: the verifier is given request.task
VerifierTask == Task

\* a variant in which verify is called while execute is still collecting
VerifyCallBeforeExecuteReturns ==
    /\ pc \in {"call_verify", "execute_pool"}
    /\ pc' = "retry"
    /\ updated' = << >>
    /\ retrying' = FALSE
    /\ hist' = [hist EXCEPT !.nVerify = Count(@), !.outOfOrder = FALSE,
                            !.verifyTask = VerifierTask, !.nRetry = Count(@)]
    /\ UNCHANGED <<pass, plan, stepState, future, results, step_results,
                   final, first, response>>

\* verifier.verify(task, plan, steps) is called: line 55 enters retry_failed
VerifyCall ==
    /\ pc = "call_verify"
    /\ pc' = "retry"
    /\ updated' = << >>
    /\ retrying' = FALSE
    /\ hist' = [hist EXCEPT !.nVerify = Count(@), !.outOfOrder = FALSE,
                            !.verifyTask = VerifierTask, !.nRetry = Count(@)]
    /\ UNCHANGED <<pass, plan, stepState, future, results, step_results,
                   final, first, response>>

NoPlan == [goal |-> None, steps |-> << >>]

\* auto_replan = None
NoReplan ==
    [present |-> FALSE, triggered |-> FALSE, reason |-> None, task |-> None,
     plan |-> NoPlan, steps |-> << >>, final |-> NoFinal]

NoMetrics == [tool_execution_ms |-> 0, tool_count |-> 0]

NoResponse ==
    [status |-> None, detail |-> None, task |-> None, plan |-> NoPlan,
     steps |-> << >>, final |-> NoFinal, auto_replan |-> NoReplan,
     metrics |-> NoMetrics]

\* main.py lines 836-837: any exception becomes one HTTP 500 with its text
ErrorResponse(detail) ==
    [NoResponse EXCEPT !.status = "error", !.detail = detail]

\* a variant that compacts and enriches the results verify was given
OracleVerifyOnInput(answers) ==
    /\ pc = "retry"
    /\ RetryPos > Len(step_results)
    /\ \/ \E v \in {a \in answers : a.kind # "object"} :
             /\ pc' = "failed"
             /\ response' = ErrorResponse(v.kind)
             /\ hist' = [hist EXCEPT !.nOracle = Count(@), !.oracle = v,
                                     !.seen = CompactStepResults(step_results)]
             /\ UNCHANGED final
       \/ \E v \in {a \in answers : a.kind = "object"} :
             /\ final' = Enrich(plan, step_results, AsFinal(v))
             /\ pc' = "verified"
             /\ hist' = [hist EXCEPT !.nOracle = Count(@), !.oracle = v,
                                     !.seen = CompactStepResults(step_results)]
             /\ UNCHANGED response
    /\ UNCHANGED <<pass, plan, stepState, future, results, step_results,
                   updated, retrying, first>>

\* lines 56-152: retry_failed has returned; the repaired results are
\* compacted into the prompt, the oracle is asked once and the
\* deterministic enrichment is applied to its object.  An oracle failure, or
\* a value that takes no item assignment (line 142), raises out of verify.
OracleVerify(answers) ==
    /\ pc = "retry"
    /\ RetryPos > Len(step_results)
    /\ \/ \E v \in {a \in answers : a.kind # "object"} :
             /\ pc' = "failed"
             /\ response' = ErrorResponse(v.kind)
             /\ hist' = [hist EXCEPT !.nOracle = Count(@), !.oracle = v,
                                     !.seen = CompactStepResults(updated)]
             /\ UNCHANGED final
       \/ \E v \in {a \in answers : a.kind = "object"} :
             /\ final' = Enrich(plan, updated, AsFinal(v))
             /\ pc' = "verified"
             /\ hist' = [hist EXCEPT !.nOracle = Count(@), !.oracle = v,
                                     !.seen = CompactStepResults(updated)]
             /\ UNCHANGED response
    /\ UNCHANGED <<pass, plan, stepState, future, results, step_results,
                   updated, retrying, first>>

---------------------------------------------------------------------------
(* PlannerAgent.create_plan and _normalize_plan *)

\* a step as the oracle wrote it; an omitted key is None
OracleStep(id, tool, args, purpose) ==
    [id |-> id, tool |-> tool, args |-> args, purpose |-> purpose]

\* what client.chat_json can do for the planner: raise; return a value that
\* is not an object ("nonobject"); an object whose steps is missing or not a
\* list ("nosteps"); an object with a steps list ("object")
OraclePlan(kind, goal, steps) == [kind |-> kind, goal |-> goal, steps |-> steps]

\* a variant that validates the tool of the first step only
PlanErrorFirstStepOnly(r) ==
    IF r.kind = "raise" THEN "LLM did not return valid JSON"
    ELSE IF r.kind = "nonobject" THEN "Planner output is not a JSON object"
    ELSE IF r.kind = "nosteps" \/ r.steps = << >> THEN "Planner output missing steps"
    ELSE IF Truthy(r.steps[1].tool) /\ r.steps[1].tool \in TOOL_REGISTRY THEN None
    ELSE "Unknown tool in plan: " \o r.steps[1].tool

\* planner.py lines 18-22 and 25-28: what makes _normalize_plan raise
PlanError(r) ==
    IF r.kind = "raise" THEN "LLM did not return valid JSON"
    ELSE IF r.kind = "nonobject" THEN "Planner output is not a JSON object"
    ELSE IF r.kind = "nosteps" \/ r.steps = << >> THEN "Planner output missing steps"
    ELSE LET bad == {i \in 1..Len(r.steps) :
                        ~Truthy(r.steps[i].tool)
                        \/ r.steps[i].tool \notin TOOL_REGISTRY}
         IN  IF bad = {} THEN None
             ELSE "Unknown tool in plan: "
                  \o r.steps[CHOOSE i \in bad : \A j \in bad : i <= j].tool

\* a variant that numbers the default ids from 0
NormalizeStepFromZero(step, idx) ==
    [id |-> Or(step.id, "step_" \o ToString(idx - 1)),
     tool |-> step.tool,
     args |-> Or(step.args, EmptyArgs),
     purpose |-> Or(step.purpose, "")]

\* planner.py lines 29-36
NormalizeStep(step, idx) ==
    [id |-> Or(step.id, "step_" \o ToString(idx)),
     tool |-> step.tool,
     args |-> Or(step.args, EmptyArgs),
     purpose |-> Or(step.purpose, "")]

\* planner.py lines 24-38
NormalizePlan(r, task) ==
    [goal |-> Or(r.goal, task),
     steps |-> [i \in 1..Len(r.steps) |-> NormalizeStep(r.steps[i], i)]]

SeqsUpTo(S, n) == UNION {[1..k -> S] : k \in 0..n}

\* the steps the planner oracle writes in a whole run
RunOracleSteps ==
    {OracleStep(None, "github_search", None, None),
     OracleStep("step_2", "weather_current", "city=Pune", "weather"),
     OracleStep(None, "shell", None, None)}

\* the planner oracle's answers explored in a whole run, with at most n steps
RunPlans(n) ==
    {OraclePlan("raise", None, << >>), OraclePlan("nonobject", None, << >>),
     OraclePlan("nosteps", None, << >>)}
    \cup {OraclePlan("object", None, ss) : ss \in SeqsUpTo(RunOracleSteps, n)}

\* the steps the planner oracle writes when create_plan is studied alone:
\* an id omitted, explicit, or equal to a default id; a tool registered,
\* not registered ("shell") or omitted; args and purpose given or omitted
PlannerOracleSteps ==
    {OracleStep(id, tool, ap[1], ap[2]) :
        id \in {None, "step_2", "a"},
        tool \in {"github_search", "weather_current", "shell", None},
        ap \in {<<None, None>>, <<None, "weather">>, <<"city=Pune", "weather">>}}

\* the planner oracle's answers when create_plan is studied alone
PlannerPlans(n) ==
    {OraclePlan("raise", None, << >>), OraclePlan("nonobject", None, << >>),
     OraclePlan("nosteps", None, << >>), OraclePlan("nosteps", "goal", << >>)}
    \cup {OraclePlan("object", g, ss) :
            g \in {None, "goal"}, ss \in SeqsUpTo(PlannerOracleSteps, n)}

\* no answer of the planner oracle yet
NoOraclePlan == OraclePlan("none", None, << >>)

---------------------------------------------------------------------------
(* main.py: _extract_step_errors, _build_replan_task, run_task *)

\* main.py lines 32-39
ExtractStepErrors(rs) ==
    LET kept == SelectSeq(rs, LAMBDA r : r.status = "error")
    IN  [i \in 1..Len(kept) |->
            Or(kept[i].tool, "unknown_tool") \o ": " \o Or(kept[i].error, "unknown error")]

\* a variant that looks at the step errors only
BuildReplanTaskErrorsOnly(task, rs, fin) ==
    LET errors == ExtractStepErrors(rs)
    IN  IF errors = << >> THEN None
        ELSE task \o "\n\n"
             \o "Fix missing or failed info from the previous attempt. "
             \o "Use only the necessary tools. "
             \o "Errors: " \o Join(errors, "; ")

\* a variant that looks at the limitations only
BuildReplanTaskLimitationsOnly(task, rs, fin) ==
    LET limitations == fin.limitations.items
    IN  IF limitations = << >> THEN None
        ELSE task \o "\n\n"
             \o "Fix missing or failed info from the previous attempt. "
             \o "Use only the necessary tools. "
             \o "Limitations: " \o Join(limitations, "; ")

\* main.py lines 42-57; None when there is nothing to correct
BuildReplanTask(task, rs, fin) ==
    LET errors == ExtractStepErrors(rs)
        limitations == fin.limitations.items
        parts ==
            (IF errors # << >>
             THEN <<"Errors: " \o Join(errors, "; ")>> ELSE << >>)
            \o (IF limitations # << >>
                THEN <<"Limitations: " \o Join(limitations, "; ")>> ELSE << >>)
    IN  IF errors = << >> /\ limitations = << >> THEN None
        ELSE task \o "\n\n"
             \o "Fix missing or failed info from the previous attempt. "
             \o "Use only the necessary tools. "
             \o Join(parts, " ")

\* main.py lines 801-805 and 831-834
Metrics(first_steps, returned_steps) ==
    [tool_execution_ms |->
        LET RECURSIVE Sum(_)
            Sum(rs) == IF rs = << >> THEN 0
                       ELSE Head(rs).duration_ms + Sum(Tail(rs))
        IN  Sum(first_steps),
     tool_count |-> Len(returned_steps)]

NoFirst == [plan |-> NoPlan, steps |-> << >>, final |-> NoFinal,
            replan_task |-> None, ownOk |-> {}]

\* a variant that returns the first outcome when the replan's plan fails
CreatePlanFallingBack(answers) ==
    /\ pc = "call_create_plan"
    /\ \E r \in answers :
          /\ IF PlanError(r) = None
             THEN /\ plan' = NormalizePlan(r, PlannerTask)
                  /\ pc' = "call_execute"
                  /\ UNCHANGED response
             ELSE IF pass = 1
             THEN /\ pc' = "failed"
                  /\ response' = ErrorResponse(PlanError(r))
                  /\ UNCHANGED plan
             ELSE /\ pc' = "done"
                  /\ response' =
                        [status |-> "ok", detail |-> None, task |-> Task,
                         plan |-> first.plan, steps |-> first.steps,
                         final |-> first.final, auto_replan |-> NoReplan,
                         metrics |-> Metrics(first.steps, first.steps)]
                  /\ UNCHANGED plan
          /\ hist' = [hist EXCEPT !.nCreatePlan = Count(@), !.nOracle = Count(@),
                                  !.planned = r, !.plannerTask = PlannerTask]
    /\ UNCHANGED <<pass, stepState, future, results, step_results, updated,
                   retrying, final, first>>

\* a variant that asks the oracle again when its answer cannot be used
CreatePlanAskingAgain(answers) ==
    /\ pc = "call_create_plan"
    /\ \E r \in answers :
          IF PlanError(r) = None
          THEN /\ plan' = NormalizePlan(r, PlannerTask)
               /\ pc' = "call_execute"
               /\ hist' = [hist EXCEPT !.nCreatePlan = Count(@), !.nOracle = Count(@),
                                       !.planned = r, !.plannerTask = PlannerTask]
          ELSE /\ hist' = [hist EXCEPT !.nOracle = Count(@)]
               /\ UNCHANGED <<plan, pc>>
    /\ UNCHANGED <<pass, stepState, future, results, step_results, updated,
                   retrying, final, first, response>>

\* main.py lines 798 and 810: planner.create_plan; one oracle request, then
\* _normalize_plan.  A failure raises out of run_task's try block.
CreatePlan(answers) ==
    /\ pc = "call_create_plan"
    /\ \E r \in answers :
          /\ IF PlanError(r) = None
             THEN /\ plan' = NormalizePlan(r, PlannerTask)
                  /\ pc' = "call_execute"
                  /\ UNCHANGED response
             ELSE /\ pc' = "failed"
                  /\ response' = ErrorResponse(PlanError(r))
                  /\ UNCHANGED plan
          /\ hist' = [hist EXCEPT !.nCreatePlan = Count(@), !.nOracle = Count(@),
                                  !.planned = r, !.plannerTask = PlannerTask]
    /\ UNCHANGED <<pass, stepState, future, results, step_results, updated,
                   retrying, final, first>>

\* main.py line 807
IsPartial(fin) == fin.completeness = "partial"

\* a variant that takes every value but "partial" for complete
IsCompleteUnlessPartial(fin) == fin.completeness # "partial"

\* main.py line 821
IsComplete(fin) == fin.completeness = "complete"

\* main.py lines 806-809 and 825-835: the first pass needs no replan, or
\* there is nothing to correct; the first outcome is returned
Respond ==
    /\ pc = "verified"
    /\ pass = 1
    /\ ~IsPartial(final) \/ BuildReplanTask(Task, step_results, final) = None
    /\ response' = [status |-> "ok", detail |-> None, task |-> Task,
                    plan |-> plan, steps |-> step_results, final |-> final,
                    auto_replan |-> NoReplan,
                    metrics |-> Metrics(step_results, step_results)]
    /\ pc' = "done"
    /\ UNCHANGED <<pass, plan, stepState, future, results, step_results,
                   updated, retrying, final, first, hist>>

\* a variant that replans after every partial pass
ReplanAfterEveryPass ==
    /\ pc = "verified"
    /\ IsPartial(final)
    /\ BuildReplanTask(Task, step_results, final) # None
    /\ first' = [plan |-> plan, steps |-> step_results, final |-> final,
                 replan_task |-> BuildReplanTask(Task, step_results, final),
                 ownOk |-> hist.ownOk]
    /\ pass' = 2
    /\ pc' = "call_create_plan"
    /\ hist' = [hist EXCEPT !.oracle = NoFinal, !.seen = << >>]
    /\ UNCHANGED <<plan, stepState, future, results, step_results, updated,
                   retrying, final, response>>

\* main.py lines 807-810: the first pass is partial and a corrective task
\* was built; the replan pass starts
Replan ==
    /\ pc = "verified"
    /\ pass = 1
    /\ IsPartial(final)
    /\ BuildReplanTask(Task, step_results, final) # None
    /\ first' = [plan |-> plan, steps |-> step_results, final |-> final,
                 replan_task |-> BuildReplanTask(Task, step_results, final),
                 ownOk |-> hist.ownOk]
    /\ pass' = 2
    /\ pc' = "call_create_plan"
    /\ hist' = [hist EXCEPT !.oracle = NoFinal, !.seen = << >>]
    /\ UNCHANGED <<plan, stepState, future, results, step_results, updated,
                   retrying, final, response>>

\* a variant that attaches the envelope only when the first outcome is kept
RespondAfterReplanEnvelopeIfKept ==
    /\ pc = "verified"
    /\ pass = 2
    /\ LET use == IsComplete(final)
           steps == IF use THEN step_results ELSE first.steps
       IN  response' =
             [status |-> "ok", detail |-> None, task |-> Task,
              plan |-> IF use THEN plan ELSE first.plan,
              steps |-> steps,
              final |-> IF use THEN final ELSE first.final,
              auto_replan |->
                 IF use THEN NoReplan
                 ELSE [present |-> TRUE, triggered |-> TRUE,
                       reason |-> "Previous attempt incomplete",
                       task |-> first.replan_task, plan |-> plan,
                       steps |-> step_results, final |-> final],
              metrics |-> Metrics(first.steps, steps)]
    /\ pc' = "done"
    /\ UNCHANGED <<pass, plan, stepState, future, results, step_results,
                   updated, retrying, final, first, hist>>

\* a variant that returns the replan's plan and final with the first steps
RespondAfterReplanMixed ==
    /\ pc = "verified"
    /\ pass = 2
    /\ LET use == IsComplete(final)
       IN  response' =
             [status |-> "ok", detail |-> None, task |-> Task,
              plan |-> IF use THEN plan ELSE first.plan,
              steps |-> first.steps,
              final |-> IF use THEN final ELSE first.final,
              auto_replan |->
                 [present |-> TRUE, triggered |-> TRUE,
                  reason |-> "Previous attempt incomplete",
                  task |-> first.replan_task, plan |-> plan,
                  steps |-> step_results, final |-> final],
              metrics |-> Metrics(first.steps, first.steps)]
    /\ pc' = "done"
    /\ UNCHANGED <<pass, plan, stepState, future, results, step_results,
                   updated, retrying, final, first, hist>>

\* main.py lines 813-835: the replan pass has ended; its outcome is returned
\* when complete, the first one otherwise, with the envelope in both cases
RespondAfterReplan ==
    /\ pc = "verified"
    /\ pass = 2
    /\ LET use == IsComplete(final)
           steps == IF use THEN step_results ELSE first.steps
       IN  response' =
             [status |-> "ok", detail |-> None, task |-> Task,
              plan |-> IF use THEN plan ELSE first.plan,
              steps |-> steps,
              final |-> IF use THEN final ELSE first.final,
              auto_replan |->
                 [present |-> TRUE, triggered |-> TRUE,
                  reason |-> "Previous attempt incomplete",
                  task |-> first.replan_task, plan |-> plan,
                  steps |-> step_results, final |-> final],
              metrics |-> Metrics(first.steps, steps)]
    /\ pc' = "done"
    /\ UNCHANGED <<pass, plan, stepState, future, results, step_results,
                   updated, retrying, final, first, hist>>

---------------------------------------------------------------------------
(* Specifications *)

\* the observation record: how often each stage and the oracle were called
\* in the run; per step of the current pass, how often execute and the
\* repair called its tool, and whether a call of its own tool succeeded;
\* whether execute collected a step before an earlier one; the object the
\* verifier's oracle returned; how many applications of retry_failed have
\* returned to a caller that applies it again, and the input of the first;
\* the last answer of the planner's oracle; the task argument of the last
\* create_plan call and of the last verify call; how often retry_failed was
\* called by verify; the compacted results in the last prompt of the
\* verifier's oracle
NoHist == [nCreatePlan |-> 0, nExecute |-> 0, nVerify |-> 0, nOracle |-> 0,
           execCalls |-> << >>, repairCalls |-> << >>, ownOk |-> {},
           outOfOrder |-> FALSE, oracle |-> NoFinal,
           applied |-> 0, before |-> << >>, planned |-> NoOraclePlan,
           plannerTask |-> None, verifyTask |-> None,
           nRetry |-> 0, seen |-> << >>]

Idle ==
    /\ pass = 1
    /\ stepState = << >>
    /\ future = << >>
    /\ results = << >>
    /\ updated = << >>
    /\ retrying = FALSE
    /\ final = NoFinal
    /\ first = NoFirst
    /\ response = NoResponse

\* a request arrives at run_task
Init ==
    /\ Idle
    /\ pc = "call_create_plan"
    /\ plan = NoPlan
    /\ step_results = << >>
    /\ hist = NoHist

ExecuteNext ==
    \/ ExecuteCall
    \/ \E i \in 1..NumSteps : StartStep(i)
    \/ \E i \in 1..NumSteps : FinishStep(i)
    \/ \E i \in 1..NumSteps : Collect(i)
    \/ ExecuteReturn
    \/ InlineReturn

RetryNext ==
    \/ RetryPassThrough
    \/ RetryStart
    \/ RetryFinish

Next ==
    \/ CreatePlan(RunPlans(IF pass = 1 THEN MaxSteps ELSE MaxReplanSteps))
    \/ ExecuteNext
    \/ VerifyCall
    \/ RetryNext
    \/ OracleVerify(RunVerifications)
    \/ Respond
    \/ Replan
    \/ RespondAfterReplan

Spec == Init /\ [][Next]_vars

\* every tool call and every oracle call returns or fails, and the thread of
\* control of the run is never suspended for ever
FairSpec == Spec /\ WF_vars(Next)

\* the answers of the verifier's oracle explored in the replan pass of a
\* whole run: completeness may also be another value or be omitted
ReplanVerifications ==
    RunVerifications
    \cup {OracleVerification("object", c, NoLimitations) : c \in {"unsure", None}}

\* run_task with the wider answers in the replan pass
ReplanRunNext ==
    \/ CreatePlan(RunPlans(IF pass = 1 THEN MaxSteps ELSE MaxReplanSteps))
    \/ ExecuteNext
    \/ VerifyCall
    \/ RetryNext
    \/ OracleVerify(IF pass = 1 THEN RunVerifications ELSE ReplanVerifications)
    \/ Respond
    \/ Replan
    \/ RespondAfterReplan

ReplanRunSpec == Init /\ [][ReplanRunNext]_vars

---------------------------------------------------------------------------
(* Two concurrent runs through the agents of main.py lines 26-29.  Every
   variable is here a function of the run: the state of a run lives in the
   locals of its own calls of run_task, create_plan, execute, retry_failed
   and verify.  The agents themselves hold the registry and the clients,
   which no call assigns. *)

Runs == {1, 2}

\* a variant in which the slots list is an attribute of the shared executor
\* rather than a local of the call
SlotsOfSharedExecutor(r) == 1

\* executor.py line 17: results is a local of the execute call of run r
SlotsOf(r) == r

\* executor.py lines 38-54 as a relation: what retry_failed(p, rs) can
\* return, one re-run for each error whose step id is in the plan
RepairOutcomes(p, rs) ==
    LET Rerun(i) ==
            LET j == StepMapIndex(p.steps, rs[i].step_id)
            IN  IF NeedsRetry(rs[i]) /\ j # 0
                THEN IF IsKnownTool(p.steps[j])
                     THEN ToolCallResults(p.steps[j])
                     ELSE {UnknownToolResult(p.steps[j])}
                ELSE {rs[i]}
    IN  {us \in [1..Len(rs) -> UNION {Rerun(i) : i \in 1..Len(rs)}] :
            \A i \in 1..Len(rs) : us[i] \in Rerun(i)}

\* the planner oracle's answers in a run that has company: in the first
\* pass a failure or a plan of two steps, in the replan pass a plan of one
ConcPlans(p) ==
    IF p = 1
    THEN {OraclePlan("raise", None, << >>),
          OraclePlan("object", None,
             <<OracleStep(None, "github_search", None, None),
               OracleStep("step_2", "weather_current", "city=Pune", "weather")>>)}
    ELSE {OraclePlan("object", None, <<OracleStep(None, "github_search", None, None)>>)}

\* the verifier oracle's answers in a run that has company
ConcVerifications ==
    {OracleVerification("raise", None, NoLimitations),
     OracleVerification("object", "complete", NoLimitations),
     OracleVerification("object", "partial", ListOf(<<"no forecast">>))}

\* the outcomes run r has got so far: per pass the planner oracle's answer,
\* what each tool call of execute ended in, the list retry_failed returned
\* and the verifier oracle's answer
NoTape == [planned |-> << >>, exec |-> << >>, repair |-> << >>, oracle |-> << >>]

ConcInit ==
    /\ pc = [r \in Runs |-> "call_create_plan"]
    /\ pass = [r \in Runs |-> 1]
    /\ plan = [r \in Runs |-> NoPlan]
    /\ stepState = [r \in Runs |-> << >>]
    /\ future = [r \in Runs |-> << >>]
    /\ results = [r \in Runs |-> << >>]
    /\ step_results = [r \in Runs |-> << >>]
    /\ updated = [r \in Runs |-> << >>]
    /\ retrying = [r \in Runs |-> FALSE]
    /\ final = [r \in Runs |-> NoFinal]
    /\ first = [r \in Runs |-> NoFirst]
    /\ response = [r \in Runs |-> NoResponse]
    /\ hist = [r \in Runs |-> NoTape]

\* main.py lines 798 and 810 in run r
ConcCreatePlan(r) ==
    /\ pc[r] = "call_create_plan"
    /\ \E a \in ConcPlans(pass[r]) :
          /\ IF PlanError(a) = None
             THEN /\ plan' = [plan EXCEPT ![r] =
                        NormalizePlan(a, IF pass[r] = 1 THEN Task
                                         ELSE first[r].replan_task)]
                  /\ pc' = [pc EXCEPT ![r] = "call_execute"]
                  /\ UNCHANGED response
             ELSE /\ pc' = [pc EXCEPT ![r] = "failed"]
                  /\ response' = [response EXCEPT ![r] = ErrorResponse(PlanError(a))]
                  /\ UNCHANGED plan
          /\ hist' = [hist EXCEPT ![r].planned = Append(@, a)]
    /\ UNCHANGED <<pass, stepState, future, results, step_results, updated,
                   retrying, final, first>>

\* executor.py lines 13-22 in run r
ConcExecuteCall(r) ==
    /\ pc[r] = "call_execute"
    /\ LET n == Len(plan[r].steps)
       IN  /\ pc' = [pc EXCEPT ![r] =
                      IF RunsInline(n) THEN "execute_inline" ELSE "execute_pool"]
           /\ stepState' = [stepState EXCEPT ![r] = [i \in 1..n |-> "queued"]]
           /\ future' = [future EXCEPT ![r] = [i \in 1..n |-> NoResult]]
           /\ results' = IF RunsInline(n) THEN results
                         ELSE [results EXCEPT ![SlotsOf(r)] = [i \in 1..n |-> NoResult]]
           /\ hist' = [hist EXCEPT ![r].exec = Append(@, [i \in 1..n |-> NoResult])]
    /\ UNCHANGED <<pass, plan, step_results, updated, retrying, final, first,
                   response>>

\* executor.py lines 56-87 in run r: _run_step of step i from entry to return
ConcRunStep(r, i) ==
    /\ pc[r] \in {"execute_inline", "execute_pool"}
    /\ stepState[r][i] = "queued"
    /\ pc[r] = "execute_inline" => \A j \in 1..(i - 1) : stepState[r][j] # "queued"
    /\ \E o \in (IF IsKnownTool(plan[r].steps[i])
                  THEN ToolCallResults(plan[r].steps[i])
                  ELSE {UnknownToolResult(plan[r].steps[i])}) :
          /\ future' = [future EXCEPT ![r][i] = o]
          /\ hist' = [hist EXCEPT ![r].exec[pass[r]][i] = o]
    /\ stepState' = [stepState EXCEPT ![r][i] = "finished"]
    /\ UNCHANGED <<pc, pass, plan, results, step_results, updated, retrying,
                   final, first, response>>

\* executor.py lines 23-26 in run r
ConcCollect(r, i) ==
    /\ pc[r] = "execute_pool"
    /\ stepState[r][i] = "finished"
    /\ i <= Len(results[SlotsOf(r)])
    /\ stepState' = [stepState EXCEPT ![r][i] = "collected"]
    /\ results' = [results EXCEPT ![SlotsOf(r)] = StoreResult(@, i, future[r][i])]
    /\ UNCHANGED <<pc, pass, plan, future, step_results, updated, retrying,
                   final, first, response, hist>>

\* executor.py lines 15 and 36 in run r
ConcExecuteReturn(r) ==
    /\ \/ /\ pc[r] = "execute_pool"
          /\ \A i \in 1..Len(plan[r].steps) : stepState[r][i] = "collected"
          /\ step_results' = [step_results EXCEPT ![r] =
                                 FilledSlots(results[SlotsOf(r)])]
       \/ /\ pc[r] = "execute_inline"
          /\ \A i \in 1..Len(plan[r].steps) : stepState[r][i] = "finished"
          /\ step_results' = [step_results EXCEPT ![r] = future[r]]
    /\ pc' = [pc EXCEPT ![r] = "call_verify"]
    /\ UNCHANGED <<pass, plan, stepState, future, results, updated, retrying,
                   final, first, response, hist>>

\* verifier.py lines 49-152 in run r: the repair, the oracle, the enrichment
ConcVerify(r) ==
    /\ pc[r] = "call_verify"
    /\ \E us \in RepairOutcomes(plan[r], step_results[r]), v \in ConcVerifications :
          /\ updated' = [updated EXCEPT ![r] = us]
          /\ hist' = [hist EXCEPT ![r].repair = Append(@, us),
                                  ![r].oracle = Append(@, v)]
          /\ IF v.kind = "object"
             THEN /\ final' = [final EXCEPT ![r] = Enrich(plan[r], us, AsFinal(v))]
                  /\ pc' = [pc EXCEPT ![r] = "verified"]
                  /\ UNCHANGED response
             ELSE /\ pc' = [pc EXCEPT ![r] = "failed"]
                  /\ response' = [response EXCEPT ![r] = ErrorResponse(v.kind)]
                  /\ UNCHANGED final
    /\ UNCHANGED <<pass, plan, stepState, future, results, step_results,
                   retrying, first>>

\* main.py lines 806-809 and 825-835 in run r
ConcRespond(r) ==
    /\ pc[r] = "verified"
    /\ pass[r] = 1
    /\ ~IsPartial(final[r]) \/ BuildReplanTask(Task, step_results[r], final[r]) = None
    /\ response' = [response EXCEPT ![r] =
                      [status |-> "ok", detail |-> None, task |-> Task,
                       plan |-> plan[r], steps |-> step_results[r],
                       final |-> final[r], auto_replan |-> NoReplan,
                       metrics |-> Metrics(step_results[r], step_results[r])]]
    /\ pc' = [pc EXCEPT ![r] = "done"]
    /\ UNCHANGED <<pass, plan, stepState, future, results, step_results,
                   updated, retrying, final, first, hist>>

\* main.py lines 807-810 in run r
ConcReplan(r) ==
    /\ pc[r] = "verified"
    /\ pass[r] = 1
    /\ IsPartial(final[r])
    /\ BuildReplanTask(Task, step_results[r], final[r]) # None
    /\ first' = [first EXCEPT ![r] =
                   [plan |-> plan[r], steps |-> step_results[r], final |-> final[r],
                    replan_task |-> BuildReplanTask(Task, step_results[r], final[r]),
                    ownOk |-> {}]]
    /\ pass' = [pass EXCEPT ![r] = 2]
    /\ pc' = [pc EXCEPT ![r] = "call_create_plan"]
    /\ UNCHANGED <<plan, stepState, future, results, step_results, updated,
                   retrying, final, response, hist>>

\* main.py lines 813-835 in run r
ConcRespondAfterReplan(r) ==
    /\ pc[r] = "verified"
    /\ pass[r] = 2
    /\ LET use == IsComplete(final[r])
           steps == IF use THEN step_results[r] ELSE first[r].steps
       IN  response' = [response EXCEPT ![r] =
             [status |-> "ok", detail |-> None, task |-> Task,
              plan |-> IF use THEN plan[r] ELSE first[r].plan,
              steps |-> steps,
              final |-> IF use THEN final[r] ELSE first[r].final,
              auto_replan |->
                 [present |-> TRUE, triggered |-> TRUE,
                  reason |-> "Previous attempt incomplete",
                  task |-> first[r].replan_task, plan |-> plan[r],
                  steps |-> step_results[r], final |-> final[r]],
              metrics |-> Metrics(first[r].steps, steps)]]
    /\ pc' = [pc EXCEPT ![r] = "done"]
    /\ UNCHANGED <<pass, plan, stepState, future, results, step_results,
                   updated, retrying, final, first, hist>>

ConcNext ==
    \E r \in Runs :
        \/ ConcCreatePlan(r)
        \/ ConcExecuteCall(r)
        \/ \E i \in 1..Len(stepState[r]) : ConcRunStep(r, i)
        \/ \E i \in 1..Len(stepState[r]) : ConcCollect(r, i)
        \/ ConcExecuteReturn(r)
        \/ ConcVerify(r)
        \/ ConcRespond(r)
        \/ ConcReplan(r)
        \/ ConcRespondAfterReplan(r)

ConcSpec == ConcInit /\ [][ConcNext]_vars

---------------------------------------------------------------------------
(* create_plan alone: run_task from the request to the call of execute *)

PlannerNext ==
    \/ CreatePlan(PlannerPlans(MaxPlannerSteps))
    \/ ExecuteCall

PlannerSpec == Init /\ [][PlannerNext]_vars

---------------------------------------------------------------------------
(* The agents alone: execute, retry_failed and verify on any plan *)

\* the steps of the plans handed to the agents directly; "shell" is not a
\* registered tool
AgentSteps ==
    {[id |-> i, tool |-> t, args |-> EmptyArgs, purpose |-> ""] :
        i \in {"s1", "s2"}, t \in {"github_search", "shell"}}

AgentPlans(n) ==
    {[goal |-> Task, steps |-> ss] : ss \in SeqsUpTo(AgentSteps, n) \ {<< >>}}

\* the results handed to retry_failed directly; "gone" is the id of no step
AgentResults ==
    {[step_id |-> i, tool |-> "github_search", args |-> EmptyArgs,
      status |-> "success", output |-> "gh_3", error |-> None,
      duration_ms |-> 7] : i \in {"s2", "gone"}}
    \cup
    {[step_id |-> i, tool |-> "github_search", args |-> EmptyArgs,
      status |-> "error", output |-> None, error |-> "HTTPError",
      duration_ms |-> 7] : i \in {"s2", "gone"}}

\* execute(plan) is called on any plan of at least one step
ExecInit ==
    /\ Idle
    /\ pc = "call_execute"
    /\ plan \in AgentPlans(MaxExecSteps)
    /\ step_results = << >>
    /\ hist = NoHist

ExecSpec == ExecInit /\ [][ExecuteNext]_vars

\* the plan of n steps s1 .. sn, each a repository search
PoolPlan(n) ==
    [goal |-> Task,
     steps |-> [i \in 1..n |->
                  [id |-> "s" \o ToString(i), tool |-> "github_search",
                   args |-> EmptyArgs, purpose |-> ""]]]

\* execute(plan) is called on a plan of no step, of one step, or of up to
\* MaxPoolSteps steps
PoolInit ==
    /\ Idle
    /\ pc = "call_execute"
    /\ plan \in {PoolPlan(n) : n \in 0..MaxPoolSteps}
    /\ step_results = << >>
    /\ hist = NoHist

PoolSpec == PoolInit /\ [][ExecuteNext]_vars

\* a pool worker that is free takes a queued step, every tool call returns
\* or raises, and the calling thread is never suspended for ever
FairPoolSpec == PoolSpec /\ WF_vars(ExecuteNext)

\* retry_failed(plan, step_results) is called on any plan and any results
RetryInit ==
    /\ Idle
    /\ pc = "retry"
    /\ plan \in AgentPlans(MaxRetrySteps)
    /\ step_results \in SeqsUpTo(AgentResults, MaxResults)
    /\ hist = [NoHist EXCEPT !.execCalls = [i \in 1..NumSteps |-> 0],
                             !.repairCalls = [i \in 1..NumSteps |-> 0]]

RetrySpec == RetryInit /\ [][RetryNext]_vars

RetryTwiceNext ==
    \/ RetryNext
    \/ RetryAgain

\* retry_failed is applied to any plan and results, then to its own output
RetryTwiceSpec == RetryInit /\ [][RetryTwiceNext]_vars

\* execute(plan) is called on any plan, then verify's repair,
\* retry_failed(plan, step_results), on the list execute returned
StepRunnerInit ==
    /\ Idle
    /\ pc = "call_execute"
    /\ plan \in AgentPlans(MaxRetrySteps)
    /\ step_results = << >>
    /\ hist = NoHist

StepRunnerNext ==
    \/ ExecuteNext
    \/ VerifyCall
    \/ RetryNext

StepRunnerSpec == StepRunnerInit /\ [][StepRunnerNext]_vars

\* the results execute can return for plan p: one per step, in step order
ExecuteOutcomes(p) ==
    {rs \in [1..Len(p.steps) -> UNION {ToolCallResults(p.steps[i])
                                         \cup {UnknownToolResult(p.steps[i])} :
                                       i \in 1..Len(p.steps)}] :
        \A i \in 1..Len(p.steps) :
            IF IsKnownTool(p.steps[i])
            THEN rs[i] \in ToolCallResults(p.steps[i])
            ELSE rs[i] = UnknownToolResult(p.steps[i])}

\* verify(task, plan, step_results) is called on any plan and its results
VerifyInit ==
    /\ Idle
    /\ pc = "call_verify"
    /\ plan \in AgentPlans(MaxRetrySteps)
    /\ step_results \in ExecuteOutcomes(plan)
    /\ hist = [NoHist EXCEPT !.execCalls = [i \in 1..NumSteps |-> 0],
                             !.repairCalls = [i \in 1..NumSteps |-> 0]]

VerifyNext ==
    \/ VerifyCall
    \/ RetryNext
    \/ OracleVerify(AgentVerifications)

VerifySpec == VerifyInit /\ [][VerifyNext]_vars

\* the first pass from the call of verify to the replan decision, on any
\* plan, any results of execute for it and any answer of the oracle
DecideNext ==
    \/ VerifyNext
    \/ Respond
    \/ Replan

DecideSpec == VerifyInit /\ [][DecideNext]_vars

\* the plans handed to verify when its narration is studied: any registered
\* tool at each step, distinct ids
NarratePlans(n) ==
    {[goal |-> Task,
      steps |-> [i \in 1..Len(ts) |->
                   [id |-> "s" \o ToString(i), tool |-> ts[i],
                    args |-> EmptyArgs, purpose |-> ""]]] :
        ts \in SeqsUpTo(TOOL_REGISTRY, n) \ {<< >>}}

\* the results execute can return for plan p when every output of
\* AllToolOutputs can occur
NarrateOutcomes(p) ==
    LET Of(step) ==
            {StepResult(step, "success", o, None, ms) :
                o \in AllToolOutputs(step.tool), ms \in ToolDurations}
            \cup {StepResult(step, "error", None, e, ms) :
                e \in ToolErrors(step.tool), ms \in ToolDurations}
    IN  {rs \in [1..Len(p.steps) -> UNION {Of(p.steps[i]) : i \in 1..Len(p.steps)}] :
            \A i \in 1..Len(p.steps) : rs[i] \in Of(p.steps[i])}

\* verify(task, plan, step_results) is called on a plan of registered tools
\* and results of execute for it
NarrateInit ==
    /\ Idle
    /\ pc = "call_verify"
    /\ plan \in NarratePlans(MaxNarrateSteps)
    /\ step_results \in NarrateOutcomes(plan)
    /\ hist = [NoHist EXCEPT !.execCalls = [i \in 1..NumSteps |-> 0],
                             !.repairCalls = [i \in 1..NumSteps |-> 0]]

NarrateNext ==
    \/ VerifyCall
    \/ RetryNext
    \/ OracleVerify(RunVerifications)

NarrateSpec == NarrateInit /\ [][NarrateNext]_vars

\* what a search can return besides: seven items, when the step asks for
\* top_n = 7
WideToolOutputs(tool) ==
    AllToolOutputs(tool)
    \cup (IF tool = "github_search" THEN {"gh_7"} ELSE {})

\* the results execute can return for plan p when every output of
\* WideToolOutputs can occur
CompactOutcomes(p) ==
    LET Of(step) ==
            {StepResult(step, "success", o, None, ms) :
                o \in WideToolOutputs(step.tool), ms \in ToolDurations}
            \cup {StepResult(step, "error", None, e, ms) :
                e \in ToolErrors(step.tool), ms \in ToolDurations}
    IN  {rs \in [1..Len(p.steps) -> UNION {Of(p.steps[i]) : i \in 1..Len(p.steps)}] :
            \A i \in 1..Len(p.steps) : rs[i] \in Of(p.steps[i])}

\* verify(task, plan, step_results) is called on a plan of registered tools
\* and results of execute for it, long searches included
CompactInit ==
    /\ Idle
    /\ pc = "call_verify"
    /\ plan \in NarratePlans(MaxNarrateSteps)
    /\ step_results \in CompactOutcomes(plan)
    /\ hist = [NoHist EXCEPT !.execCalls = [i \in 1..NumSteps |-> 0],
                             !.repairCalls = [i \in 1..NumSteps |-> 0]]

CompactNext ==
    \/ VerifyCall
    \/ RetryNext
    \/ OracleVerify(RunVerifications)

CompactSpec == CompactInit /\ [][CompactNext]_vars

---------------------------------------------------------------------------
(* Properties of create_plan (PlannerSpec) *)

\* create_plan has returned a plan for the oracle's last answer
PlanReturned == hist.nCreatePlan = 1 /\ pc # "failed"

\* the tool of an oracle step is missing or is no key of the registry
BadTool(step) == step.tool = None \/ step.tool \notin TOOL_REGISTRY

\* the oracle's answer is not an object, has no steps list or an empty
\* one, or has a step with a bad tool
MustBeRejected(r) ==
    \/ r.kind \in {"nonobject", "nosteps"}
    \/ r.kind = "object" /\ r.steps = << >>
    \/ r.kind = "object" /\ \E i \in 1..Len(r.steps) : BadTool(r.steps[i])

\* C13: create_plan fails whenever the oracle's response is not an object,
\* has no steps list or an empty one, or has at least one step whose tool is
\* missing or not registered; the plan is rejected as a whole, no plan is
\* returned and execute is never reached.
C13_InvalidPlanRejected ==
    (hist.nCreatePlan = 1 /\ MustBeRejected(hist.planned)) =>
        /\ pc = "failed"
        /\ response.status = "error"
        /\ plan = NoPlan
        /\ hist.nExecute = 0
        /\ ~ENABLED ExecuteCall

\* C13 witness: a two-step answer whose first step is valid and whose second
\* names the unregistered tool "shell" was rejected.
C13_Witness ==
    /\ pc = "failed"
    /\ hist.planned.kind = "object"
    /\ Len(hist.planned.steps) = 2
    /\ hist.planned.steps[1].tool = "github_search"
    /\ hist.planned.steps[2].tool = "shell"
    /\ response.detail = "Unknown tool in plan: shell"

\* the default id of the step at each position
DefaultIds == <<"step_1", "step_2", "step_3", "step_4">>

\* C14: every plan create_plan returns has a non-empty steps list with the
\* number and order of the oracle's steps, every tool registered, id
\* "step_<1-based position>" for a step that omitted its id, the empty
\* mapping for omitted args, "" for an omitted purpose, and the task text
\* for an omitted goal; what the oracle gave is kept.
C14_NormalizedPlan ==
    PlanReturned =>
        LET r == hist.planned IN
        /\ Len(plan.steps) >= 1
        /\ Len(plan.steps) = Len(r.steps)
        /\ plan.goal = IF r.goal = None THEN Task ELSE r.goal
        /\ \A i \in 1..Len(plan.steps) :
              /\ plan.steps[i].tool = r.steps[i].tool
              /\ plan.steps[i].tool \in TOOL_REGISTRY
              /\ plan.steps[i].id =
                    IF r.steps[i].id = None THEN DefaultIds[i] ELSE r.steps[i].id
              /\ plan.steps[i].args =
                    IF r.steps[i].args = None THEN "{}" ELSE r.steps[i].args
              /\ plan.steps[i].purpose =
                    IF r.steps[i].purpose = None THEN "" ELSE r.steps[i].purpose

\* C14 witness: a plan was returned for an answer with no goal whose first
\* step omits id, args and purpose and whose second step gives all three.
C14_Witness ==
    /\ PlanReturned
    /\ hist.planned.goal = None
    /\ Len(plan.steps) = 2
    /\ hist.planned.steps[1] = OracleStep(None, "github_search", None, None)
    /\ hist.planned.steps[2] = OracleStep("a", "weather_current", "city=Pune", "weather")
    /\ plan.steps[1].id = "step_1"

\* C15: step ids are unique within every plan create_plan returns.
C15_StepIdsUnique ==
    PlanReturned =>
        \A i, j \in 1..Len(plan.steps) :
            i # j => plan.steps[i].id # plan.steps[j].id

---------------------------------------------------------------------------
(* Properties of execute (ExecSpec) *)

\* execute has returned its list to the caller
ExecuteReturned == pc = "call_verify"

\* C1: for every plan with N >= 1 steps, execute returns exactly N results
\* and the result at position i is the one of the step at position i (same
\* step id and tool), whatever the order in which the steps complete.
C1_ExecuteKeepsInputOrder ==
    ExecuteReturned =>
        /\ Len(step_results) = Len(plan.steps)
        /\ \A i \in 1..Len(plan.steps) :
              /\ step_results[i].step_id = plan.steps[i].id
              /\ step_results[i].tool = plan.steps[i].tool

\* C1 witness: execute returned for a three-step plan whose first two steps
\* differ, after a later step was collected before an earlier one.
C1_Witness ==
    /\ ExecuteReturned
    /\ hist.outOfOrder
    /\ Len(plan.steps) = 3
    /\ plan.steps[1].id # plan.steps[2].id
    /\ plan.steps[1].tool # plan.steps[3].tool

\* C2: when the tool call of a step fails (it raises, or the tool is
\* unknown) execute still returns, every step has its own result in the
\* returned list, a result is an error only if that step's own tool call did
\* not succeed, and a step whose own call succeeded is reported as success
\* with the output of its own call.
C2_FailureIsolation ==
    /\ (~ENABLED ExecuteNext) => ExecuteReturned
    /\ ExecuteReturned =>
         /\ Len(step_results) = Len(plan.steps)
         /\ \A i \in 1..Len(plan.steps) :
               /\ step_results[i].step_id = plan.steps[i].id
               /\ step_results[i].status = "error" <=> i \notin hist.ownOk
               /\ i \in hist.ownOk =>
                     /\ step_results[i].status = "success"
                     /\ step_results[i] = future[i]
                     /\ step_results[i].output \in ToolOutputs(plan.steps[i].tool)

\* C2 witness: execute returned a list holding the error of an unknown tool,
\* the error of a tool call that raised, and a sibling's success.
C2_Witness ==
    /\ ExecuteReturned
    /\ \E i, j, k \in 1..Len(step_results) :
          /\ step_results[i].error = "Unknown tool: shell"
          /\ step_results[j].error = "HTTPError"
          /\ step_results[k].status = "success"
          /\ k \in hist.ownOk

---------------------------------------------------------------------------
(* Properties of retry_failed (RetrySpec) *)

\* the loop of retry_failed has consumed its whole input
RetryReturned == pc = "retry" /\ Len(updated) = Len(step_results)

AllSuccess(rs) == \A i \in 1..Len(rs) : rs[i].status = "success"

IdInPlan(id) == \E i \in 1..Len(plan.steps) : plan.steps[i].id = id

\* C7: retry_failed applied to results that are all successes is the
\* identity: the same results in the same order, and no tool is invoked.
C7_RetryIdentityOnSuccess ==
    AllSuccess(step_results) =>
        /\ ~retrying
        /\ \A j \in 1..Len(plan.steps) : hist.repairCalls[j] = 0
        /\ updated = SubSeq(step_results, 1, Len(updated))
        /\ (~ENABLED RetryNext) => updated = step_results

\* C7 witness: retry_failed has returned for two successes whose step ids
\* are ids of the plan.
C7_Witness ==
    /\ RetryReturned
    /\ Len(step_results) >= 2
    /\ AllSuccess(step_results)
    /\ \A i \in 1..Len(step_results) : IdInPlan(step_results[i].step_id)

\* C8: retry_failed returns a list as long as its input in which, position
\* by position, a success is passed through unchanged, an error whose
\* step_id is no id of the plan is passed through unchanged, and an error
\* whose step_id is in the plan is replaced by the result of re-running a
\* step with that id; the re-runs happen one at a time, in input order.
C8_RetryPositionByPosition ==
    /\ Len(updated) <= Len(step_results)
    /\ (~ENABLED RetryNext) => RetryReturned
    /\ retrying =>
          /\ RetryPos <= Len(step_results)
          /\ step_results[RetryPos].status = "error"
          /\ IdInPlan(step_results[RetryPos].step_id)
    /\ \A k \in 1..Len(updated) :
          LET r == step_results[k] IN
          IF r.status = "success" \/ ~IdInPlan(r.step_id)
          THEN updated[k] = r
          ELSE \E i \in 1..Len(plan.steps) :
                  /\ plan.steps[i].id = r.step_id
                  /\ updated[k] \in
                        IF plan.steps[i].tool \in TOOL_REGISTRY
                        THEN ToolCallResults(plan.steps[i])
                        ELSE {UnknownToolResult(plan.steps[i])}

\* C8 witness: retry_failed has returned for an input holding a success, an
\* error of a step that is not in the plan and an error of a step of the
\* plan, whose re-run succeeded.
C8_Witness ==
    /\ RetryReturned
    /\ \E a, b, c \in 1..Len(step_results) :
          /\ step_results[a].status = "success"
          /\ step_results[b].status = "error"
          /\ ~IdInPlan(step_results[b].step_id)
          /\ step_results[c].status = "error"
          /\ IdInPlan(step_results[c].step_id)
          /\ updated[c].status = "success"
          /\ hist.repairCalls # [i \in 1..Len(plan.steps) |-> 0]

\* retry_failed is running on, or has returned for, its own output
SecondApplication == pc = "retry" /\ hist.applied = 1

\* the positions of rs that retry_failed re-runs as a call of step j's tool
RerunsOf(rs, j) ==
    {k \in 1..Len(rs) :
        /\ rs[k].status = "error"
        /\ StepMapIndex(plan.steps, rs[k].step_id) = j
        /\ plan.steps[j].tool \in TOOL_REGISTRY}

\* C11: retry_failed carries no hidden state between calls: applied to its
\* own output it starts as a first application does, re-runs exactly the
\* steps still in error after the first application, each by one fresh
\* execution of the step, and passes every other result through unchanged,
\* the repaired ones included.
C11_RetryTwiceNoHiddenState ==
    SecondApplication =>
        /\ Len(step_results) = Len(hist.before)
        /\ retrying =>
              /\ RetryPos <= Len(step_results)
              /\ step_results[RetryPos].status = "error"
              /\ IdInPlan(step_results[RetryPos].step_id)
        /\ \A k \in 1..Len(updated) :
              LET r == step_results[k] IN
              IF r.status = "success" \/ ~IdInPlan(r.step_id)
              THEN updated[k] = r
              ELSE \E i \in 1..Len(plan.steps) :
                      /\ plan.steps[i].id = r.step_id
                      /\ updated[k] \in
                            IF plan.steps[i].tool \in TOOL_REGISTRY
                            THEN ToolCallResults(plan.steps[i])
                            ELSE {UnknownToolResult(plan.steps[i])}
        /\ \A j \in 1..Len(plan.steps) :
              hist.repairCalls[j] =
                 Cardinality(RerunsOf(SubSeq(step_results, 1,
                                             Len(updated) + IF retrying THEN 1 ELSE 0), j))

\* C11 witness: the second application has returned; one result that the
\* first application repaired passed through, and one that failed again in
\* the first application was re-run and succeeded.
C11_Witness ==
    /\ SecondApplication
    /\ RetryReturned
    /\ \E a, b \in 1..Len(step_results) :
          /\ hist.before[a].status = "error"
          /\ step_results[a].status = "success"
          /\ updated[a] = step_results[a]
          /\ hist.before[b].status = "error"
          /\ step_results[b].status = "error"
          /\ IdInPlan(step_results[b].step_id)
          /\ updated[b].status = "success"

---------------------------------------------------------------------------
(* Properties of _run_step in execute and retry_failed (StepRunnerSpec) *)

\* r is the error result of step for a tool name that is not registered
IsUnknownToolError(r, step) ==
    /\ r.step_id = step.id
    /\ r.tool = step.tool
    /\ r.status = "error"
    /\ r.error = "Unknown tool: " \o step.tool
    /\ r.output = None

\* C12: a step whose tool name is not in the registry yields a result with
\* status error and error "Unknown tool: <name>", and no registry callable
\* is invoked for it, in execute and in retry_failed.
C12_UnknownToolNeverInvoked ==
    \A i \in 1..Len(plan.steps) :
        plan.steps[i].tool \notin TOOL_REGISTRY =>
            /\ Len(hist.execCalls) >= i => hist.execCalls[i] = 0
            /\ Len(hist.repairCalls) >= i => hist.repairCalls[i] = 0
            /\ Len(stepState) >= i =>
                  /\ stepState[i] # "running"
                  /\ stepState[i] \in {"finished", "collected"} =>
                        IsUnknownToolError(future[i], plan.steps[i])
            /\ pc \in {"call_verify", "retry"} =>
                  IsUnknownToolError(step_results[i], plan.steps[i])
            /\ pc = "retry" =>
                  \A k \in 1..Len(updated) :
                      (/\ step_results[k].status = "error"
                       /\ StepMapIndex(plan.steps, step_results[k].step_id) = i)
                      => IsUnknownToolError(updated[k], plan.steps[i])

\* C12 witness: execute and the repair have both returned the error of the
\* unregistered tool "shell" for a step, next to a step whose registered tool
\* was invoked.
C12_Witness ==
    /\ pc = "retry"
    /\ RetryReturned
    /\ \E i, j \in 1..Len(plan.steps) :
          /\ plan.steps[i].tool = "shell"
          /\ plan.steps[i].id # plan.steps[j].id
          /\ step_results[i].error = "Unknown tool: shell"
          /\ updated[i].error = "Unknown tool: shell"
          /\ hist.execCalls[i] = 0
          /\ hist.execCalls[j] = 1

---------------------------------------------------------------------------
(* Properties of verify (VerifySpec) *)

\* verify has returned a Verification
VerifyReturned == pc = "verified"

StillFailing == \E i \in 1..Len(updated) : updated[i].status = "error"

\* C5: if a step is still in error after the single repair retry, the
\* returned Verification has completeness "partial" and limitations that
\* hold the fixed string, whatever the oracle returned; a list of
\* limitations the oracle supplied is kept, the fixed string coming last.
C5_DowngradeWhenStillFailing ==
    (VerifyReturned /\ StillFailing) =>
        /\ final.completeness = "partial"
        /\ final.limitations.kind = "list"
        /\ \E i \in 1..Len(final.limitations.items) :
              final.limitations.items[i] = FixedLimitation
        /\ hist.oracle.limitations.kind = "list" =>
              final.limitations.items =
                 Append(hist.oracle.limitations.items, FixedLimitation)

\* C5 witness: verify returned with a step still failing although the oracle
\* answered "complete" with a limitations list of its own.
C5_Witness ==
    /\ VerifyReturned
    /\ StillFailing
    /\ hist.oracle.completeness = "complete"
    /\ hist.oracle.limitations = ListOf(<<"no forecast">>)
    /\ hist.repairCalls # [i \in 1..Len(plan.steps) |-> 0]

---------------------------------------------------------------------------
(* Properties of verify's sources and narration (NarrateSpec) *)

\* the position of the first occurrence of x in xs
FirstIndex(xs, x) ==
    CHOOSE i \in 1..Len(xs) : xs[i] = x /\ \A j \in 1..(i - 1) : xs[j] # x

\* the source_url of every repaired output in result order, followed by the
\* url of every item of the repository-search results in item order
SeenUrls ==
    LET srcs == SelectSeq([i \in 1..Len(updated) |-> SourceUrl(updated[i].output)],
                          LAMBDA u : u # None)
        urls == Flatten([i \in 1..Len(updated) |->
                   IF updated[i].tool = "github_search"
                   THEN [k \in 1..Len(Items(updated[i].output)) |->
                           Items(updated[i].output)[k].url]
                   ELSE << >>])
    IN  srcs \o urls

\* C16: the sources of the returned Verification hold no duplicate, are
\* exactly the urls of the repaired outputs (never what the oracle
\* supplied), and are in first-seen order, where the source_url values of
\* all outputs come before the urls of the repository items.
C16_SourcesDedupedInOrder ==
    VerifyReturned =>
        /\ \A i, j \in 1..Len(final.sources) :
              i # j => final.sources[i] # final.sources[j]
        /\ Range(final.sources) = Range(SeenUrls)
        /\ \A i, j \in 1..Len(final.sources) :
              i < j => FirstIndex(SeenUrls, final.sources[i])
                         < FirstIndex(SeenUrls, final.sources[j])
        /\ \A i \in 1..Len(hist.oracle.sources) :
              hist.oracle.sources[i] \notin Range(final.sources)

\* C16 witness: verify returned for two searches that share the url of
\* repository o/a; it is listed once, after both source_url values.
C16_Witness ==
    /\ VerifyReturned
    /\ Len(updated) = 2
    /\ updated[1].output = "gh_3"
    /\ updated[2].output = "gh_mixed"
    /\ final.sources =
          << "https://api.github.com/search/repositories?q=x",
             "https://api.github.com/search/repositories?q=y",
             "https://github.com/o/a", "https://github.com/o/b",
             "https://github.com/o/c", "https://github.com/o/z",
             "https://github.com/o/y", "https://github.com/o/x" >>

\* the set of distinct tools of the plan
ToolsOfPlan == {plan.steps[i].tool : i \in 1..Len(plan.steps)}

\* the position of the first successful text-generation result, 0 if none
FirstSpeech ==
    LET hits == {i \in 1..Len(updated) :
                    updated[i].tool = "llm_generate" /\ updated[i].status = "success"}
    IN  IF hits = {} THEN 0 ELSE CHOOSE i \in hits : \A j \in hits : i <= j

\* the number of whitespace-separated tokens of cs: the positions where a
\* token ends
TokenCount(cs) ==
    Cardinality({i \in 1..Len(cs) :
                    /\ cs[i] \notin {" ", "\n", "\t"}
                    /\ i = Len(cs) \/ cs[i + 1] \in {" ", "\n", "\t"}})

\* C17: when the plan's tools are exactly the text-generation tool and the
\* first successful result of it has the non-empty text T, the returned
\* Verification has final_answer T, data {kind: "introduction_speech",
\* word_count: the number of whitespace-separated tokens of T} and no
\* sources, whatever the oracle produced; when that text is empty the
\* oracle's final_answer and data are kept.
C17_SingleToolOverride ==
    (VerifyReturned /\ ToolsOfPlan = {"llm_generate"} /\ FirstSpeech # 0) =>
        LET T == Text(updated[FirstSpeech].output) IN
        IF T # << >>
        THEN /\ final.final_answer = Chars2Str(T)
             /\ final.data = [kind |-> "introduction_speech",
                              word_count |-> <<TokenCount(T)>>]
             /\ final.sources = << >>
        ELSE /\ final.final_answer = hist.oracle.final_answer
             /\ final.data = hist.oracle.data

\* C17 witness: the first step of a text-only plan still fails after the
\* repair and the second generated "Hello World": the answer is that text
\* with a word count of 2 and no sources.
C17_Witness ==
    /\ VerifyReturned
    /\ ToolsOfPlan = {"llm_generate"}
    /\ Len(updated) = 2
    /\ updated[1].status = "error"
    /\ updated[2].output = "text_hello"
    /\ final.final_answer = "Hello World"
    /\ final.data.kind = "introduction_speech"
    /\ final.data.word_count = <<2>>
    /\ final.sources = << >>
    /\ hist.oracle.final_answer = "oracle answer"

\* the repository sentence for the items of a search output ("*" stands for
\* the star character), "" when it has no item
ExpectedRepoSentence(o) ==
    CASE o = "gh_3" ->
           "Top repositories: o/a (https://github.com/o/a, 100*); "
           \o "o/b (https://github.com/o/b, 50*); "
           \o "o/c (https://github.com/o/c, 10*)."
      [] o = "gh_mixed" ->
           "Top repositories: z (https://github.com/o/z, 0*); "
           \o "o/a (https://github.com/o/a); "
           \o "o/y (https://github.com/o/y, 5*)."
      [] OTHER -> ""

\* the weather sentence for a forecast output ("deg" stands for the degree
\* sign)
ExpectedWeatherSentence(o) ==
    CASE o = "wx_full" ->
           "Current weather in Pune, India: Clear sky, 30degC, wind 12 kph."
      [] o = "wx_bare" ->
           "Current weather in None, None: Unknown conditions."
      [] OTHER -> ""

\* C18: when the plan's tools include repository-search or weather-lookup,
\* final_answer is the repository sentence (the first 3 items, with the
\* star count when present, 0 included) followed by the weather sentence,
\* each only when it exists; a composed answer replaces the oracle's, the
\* oracle's final_answer is kept when nothing is composed, and the oracle's
\* data is left unchanged.  Every search output with items has at least 3,
\* so the first 3 items are those of the first search result with items.
C18_MultiDomainOverride ==
    (VerifyReturned /\ ToolsOfPlan \cap {"github_search", "weather_current"} # {}) =>
        LET repos == {i \in 1..Len(updated) :
                         /\ updated[i].tool = "github_search"
                         /\ Items(updated[i].output) # << >>}
            wx == {i \in 1..Len(updated) :
                      /\ updated[i].tool = "weather_current"
                      /\ updated[i].status = "success"}
            rs == IF repos = {} THEN ""
                  ELSE ExpectedRepoSentence(
                          updated[CHOOSE i \in repos : \A j \in repos : i <= j].output)
            ws == IF wx = {} THEN ""
                  ELSE ExpectedWeatherSentence(
                          updated[CHOOSE i \in wx : \A j \in wx : i >= j].output)
        IN  /\ final.final_answer =
                  IF rs # "" /\ ws # "" THEN rs \o " " \o ws
                  ELSE IF rs # "" THEN rs
                  ELSE IF ws # "" THEN ws
                  ELSE hist.oracle.final_answer
            /\ final.data = hist.oracle.data

\* C18 witness: the plan asks for the weather first and the repositories
\* second; the answer starts with the three repositories and ends with the
\* weather sentence.
C18_Witness ==
    /\ VerifyReturned
    /\ Len(updated) = 2
    /\ updated[1].output = "wx_full"
    /\ updated[2].output = "gh_3"
    /\ final.final_answer =
          "Top repositories: o/a (https://github.com/o/a, 100*); "
          \o "o/b (https://github.com/o/b, 50*); "
          \o "o/c (https://github.com/o/c, 10*). "
          \o "Current weather in Pune, India: Clear sky, 30degC, wind 12 kph."
    /\ final.data = OracleData

---------------------------------------------------------------------------
(* Properties of a run (Spec, FairSpec) *)

\* run_task has returned a response or raised its error
RunEnded == pc \in {"done", "failed"}

\* C3: a run makes at most one replan attempt: create_plan, execute and
\* verify are each called at most twice, and nothing follows the response,
\* also when the replanned verification is partial again.
C3_AtMostOneReplan ==
    /\ pass \in {1, 2}
    /\ hist.nCreatePlan <= 2
    /\ hist.nExecute <= 2
    /\ hist.nVerify <= 2
    /\ RunEnded => ~ENABLED Next

\* C3 witness: the run ended after a replan pass whose verification was
\* partial again.
C3_Witness ==
    /\ pc = "done"
    /\ pass = 2
    /\ IsPartial(final)
    /\ hist.nCreatePlan = 2
    /\ hist.nExecute = 2
    /\ hist.nVerify = 2

\* C4: every run terminates: when every tool call and every oracle call
\* returns or fails, the run reaches its end (a response or an error) after
\* at most two plan -> execute -> verify passes.
C4_RunTerminates ==
    <>(RunEnded /\ hist.nCreatePlan <= 2 /\ hist.nExecute <= 2 /\ hist.nVerify <= 2)

\* C4 witness: a run ended with the response of a complete replan pass, in
\* which a failed step was repaired.
C4_Witness ==
    /\ pc = "done"
    /\ pass = 2
    /\ response.status = "ok"
    /\ IsComplete(response.final)
    /\ response.auto_replan.present
    /\ hist.repairCalls # [i \in 1..Len(plan.steps) |-> 0]

\* the steps of the returned plan for which a call of their own tool
\* succeeded, in execute or in the repair retry of their pass
ReturnedOwnOk ==
    IF pass = 2 /\ ~IsComplete(final) THEN first.ownOk ELSE hist.ownOk

C9_RetryKeepsStepAtPosition ==
    pc \in {"retry", "verified"} =>
        \A i \in 1..Len(updated) :
            /\ updated[i].step_id = plan.steps[i].id
            /\ updated[i].tool = plan.steps[i].tool
            /\ updated[i].args = plan.steps[i].args

\* C10: in one pass each step's tool is invoked exactly once by execute and,
\* only if that invocation ended in error, exactly once more by the repair;
\* a step that succeeded in execute is never invoked again.
C10_AtMostOneRetryPerPass ==
    /\ pc \in {"retry", "verified"} =>
          \A i \in 1..Len(plan.steps) :
              /\ hist.execCalls[i] = 1
              /\ hist.repairCalls[i] <= 1
              /\ step_results[i].status = "success" => hist.repairCalls[i] = 0
    /\ pc = "verified" =>
          \A i \in 1..Len(plan.steps) :
              step_results[i].status = "error" => hist.repairCalls[i] = 1

\* there is something to correct: a step result of execute has status
\* error, or the verification carries at least one limitation
SomethingToCorrect(steps, fin) ==
    \/ \E i \in 1..Len(steps) : steps[i].status = "error"
    \/ Len(fin.limitations.items) >= 1

\* C19: a replan pass is started if and only if the first verification's
\* completeness is "partial" and there is something to correct; otherwise
\* (not partial, or partial with no error and no limitation) the first
\* outcome is returned with no replan envelope.
C19_ReplanDecision ==
    /\ pass = 2 =>
          /\ first.final.completeness = "partial"
          /\ SomethingToCorrect(first.steps, first.final)
    /\ (pc = "verified" /\ pass = 1) =>
          /\ ENABLED Replan <=>
                (final.completeness = "partial" /\ SomethingToCorrect(step_results, final))
          /\ ENABLED Respond <=>
                ~(final.completeness = "partial" /\ SomethingToCorrect(step_results, final))
    /\ (pc = "done" /\ pass = 1) =>
          /\ ~(final.completeness = "partial" /\ SomethingToCorrect(step_results, final))
          /\ response.auto_replan = NoReplan
          /\ response.plan = plan
          /\ response.steps = step_results
          /\ response.final = final
          /\ hist.nCreatePlan = 1

\* C19 witness: the oracle reported "partial" with no limitation and no step
\* failed; the replan was skipped and the first outcome returned without
\* an envelope.
C19_Witness ==
    /\ pc = "done"
    /\ pass = 1
    /\ response.final.completeness = "partial"
    /\ response.final.limitations.items = << >>
    /\ \A i \in 1..Len(response.steps) : response.steps[i].status = "success"
    /\ ~response.auto_replan.present
    /\ hist.nCreatePlan = 1

\* C20: in the replan pass the planner is given the corrective task, and
\* the verifier is given the original task text, never the corrective one,
\* with the replan's own plan and the results execute returned for it.
C20_ReplanTasks ==
    /\ (pass = 2 /\ hist.nCreatePlan = 2) =>
          /\ hist.plannerTask = first.replan_task
          /\ hist.plannerTask = BuildReplanTask(Task, first.steps, first.final)
          /\ hist.plannerTask # Task
    /\ hist.nVerify >= 1 => hist.verifyTask = Task
    /\ (pass = 2 /\ hist.nVerify = 2) =>
          /\ hist.verifyTask # first.replan_task
          /\ Len(plan.steps) = Len(hist.planned.steps)
          /\ \A i \in 1..Len(plan.steps) :
                plan.steps[i].tool = hist.planned.steps[i].tool
          /\ Len(step_results) = Len(plan.steps)
          /\ \A i \in 1..Len(plan.steps) :
                /\ step_results[i].step_id = plan.steps[i].id
                /\ step_results[i].tool = plan.steps[i].tool
                /\ hist.execCalls[i] = 1

\* C20 witness: the weather step of the first pass failed twice; the
\* planner got the corrective text, the verifier of the replan pass got the
\* original task and a plan other than the first one.
C20_Witness ==
    /\ pc = "verified"
    /\ pass = 2
    /\ hist.nVerify = 2
    /\ hist.verifyTask = "task"
    /\ hist.plannerTask =
          "task\n\nFix missing or failed info from the previous attempt. "
          \o "Use only the necessary tools. "
          \o "Errors: weather_current: HTTPError "
          \o "Limitations: Some tools failed after retry; partial data returned."
    /\ plan # first.plan

---------------------------------------------------------------------------
(* Properties of ReplanRunSpec *)

\* C21: when the replan pass has ended, the response carries the replan's
\* plan, steps and verification if the replan's verification has
\* completeness "complete"; for "partial" and for every other value it
\* carries those of the first pass, and the envelope is attached
C21_OutcomeSelection ==
    (pc = "done" /\ pass = 2) =>
        IF final.completeness = "complete"
        THEN /\ response.plan = plan
             /\ response.steps = step_results
             /\ response.final = final
        ELSE /\ response.plan = first.plan
             /\ response.steps = first.steps
             /\ response.final = first.final
             /\ response.auto_replan.present
             /\ response.auto_replan.final = final

\* a replan pass whose verification has a completeness that is neither
\* "complete" nor "partial" has ended, and the first outcome was returned
C21_Witness ==
    /\ pc = "done"
    /\ pass = 2
    /\ final.completeness = "unsure"
    /\ plan # first.plan
    /\ response.plan = first.plan
    /\ response.final = first.final
    /\ response.final # final

---------------------------------------------------------------------------
(* Properties of Spec: the replan envelope *)

\* C22: the response of a run carries the ReplanEnvelope exactly when a
\* replan pass (plan, execute, verify) was run; the envelope then has
\* triggered = true, the corrective task built from the first pass, and the
\* replan's plan, steps and verification, whether that verification is
\* complete or partial; without a replan pass there is no envelope
C22_EnvelopeIffReplanRan ==
    (pc = "done") =>
        /\ response.auto_replan.present <=> hist.nCreatePlan = 2
        /\ response.auto_replan.present <=> (hist.nExecute = 2 /\ hist.nVerify = 2)
        /\ response.auto_replan.present =>
              /\ response.auto_replan.triggered
              /\ response.auto_replan.reason = "Previous attempt incomplete"
              /\ response.auto_replan.task # None
              /\ response.auto_replan.task = hist.plannerTask
              /\ response.auto_replan.plan = plan
              /\ response.auto_replan.steps = step_results
              /\ response.auto_replan.final = final
        /\ ~response.auto_replan.present => response.auto_replan = NoReplan

\* a replan pass ended complete, its outcome was returned, and the envelope
\* is attached all the same
C22_Witness ==
    /\ pc = "done"
    /\ hist.nCreatePlan = 2
    /\ response.auto_replan.present
    /\ response.auto_replan.final.completeness = "complete"
    /\ response.final = response.auto_replan.final
    /\ response.plan = response.auto_replan.plan

---------------------------------------------------------------------------
(* Properties of FairPoolSpec *)

\* C23: while execute runs a plan of N >= 2 steps, never more than
\* min(N, 4) tool calls are in progress, and a plan of at most one step
\* runs inline, with no pool and at most one call in progress; every step
\* of the plan is still run, once, and execute returns, also when N > 4
C23_BoundedPool ==
    /\ [](pc \in {"execute_inline", "execute_pool"} =>
            /\ pc = "execute_pool" <=> NumSteps >= 2
            /\ Cardinality(Running) <= (IF NumSteps < 4 THEN NumSteps ELSE 4)
            /\ pc = "execute_inline" => Cardinality(Running) <= 1
            /\ \A i \in 1..NumSteps : hist.execCalls[i] <= 1)
    /\ (pc = "call_execute") ~>
            (/\ pc = "call_verify"
             /\ Len(step_results) = NumSteps
             /\ \A i \in 1..NumSteps : hist.execCalls[i] = 1)

\* a plan of five steps: four tool calls are in progress and the fifth step
\* waits for a worker
C23_Witness ==
    /\ pc = "execute_pool"
    /\ NumSteps = 5
    /\ Cardinality(Running) = 4
    /\ \E i \in 1..NumSteps : stepState[i] = "queued"

---------------------------------------------------------------------------
(* Properties of StepRunnerSpec: the shape of the results *)

\* a result with status success or error, of whose output and error the one
\* selected by the status is populated and the other is not
WellFormed(r) ==
    /\ r.status \in {"success", "error"}
    /\ r.status = "success" => (r.output # None /\ r.error = None)
    /\ r.status = "error" => (r.error \notin {None, ""} /\ r.output = None)
    /\ r.duration_ms >= 0

\* C24: every StepResult that execute has returned, and every StepResult
\* that retry_failed has produced or passed on, is well formed: its status
\* is success or error, a success carries an output and no error, an error
\* carries an error message and no output
C24_ResultsWellFormed ==
    /\ pc \in {"call_verify", "retry"} =>
          \A i \in 1..Len(step_results) : WellFormed(step_results[i])
    /\ pc = "retry" => \A i \in 1..Len(updated) : WellFormed(updated[i])

\* retry_failed has returned a list with the success that replaced a failed
\* call and with the error of an unknown tool
C24_Witness ==
    /\ pc = "retry"
    /\ Len(updated) = Len(step_results)
    /\ \E i \in 1..Len(updated) :
          step_results[i].status = "error" /\ updated[i].status = "success"
    /\ \E i \in 1..Len(updated) :
          updated[i].status = "error" /\ updated[i].tool = "shell"

---------------------------------------------------------------------------
(* Properties of VerifySpec: the completeness flag *)

\* C25: every Verification verify returns has completeness "complete" or
\* "partial", whatever object the oracle returned and whatever the steps
\* ended in.
C25_CompletenessTwoValued ==
    VerifyReturned => final.completeness \in {"complete", "partial"}

---------------------------------------------------------------------------
(* Properties of ConcSpec *)

\* what one pass of a run returns when it is alone and gets the answer a
\* of the planner's oracle, the tool outcomes ex (by step) from execute,
\* the list rp from retry_failed and the answer v of the verifier's oracle
AlonePass(task, a, ex, rp, v) ==
    [plan |-> NormalizePlan(a, task), steps |-> ex,
     final |-> Enrich(NormalizePlan(a, task), rp, AsFinal(v))]

\* the response of a run that is alone and gets the outcomes of tape t
AloneResponse(t) ==
    IF PlanError(t.planned[1]) # None
    THEN ErrorResponse(PlanError(t.planned[1]))
    ELSE IF t.oracle[1].kind # "object" THEN ErrorResponse(t.oracle[1].kind)
    ELSE
    LET p1 == AlonePass(Task, t.planned[1], t.exec[1], t.repair[1], t.oracle[1])
        task2 == BuildReplanTask(Task, p1.steps, p1.final)
    IN  IF p1.final.completeness # "partial" \/ task2 = None
        THEN [status |-> "ok", detail |-> None, task |-> Task,
              plan |-> p1.plan, steps |-> p1.steps, final |-> p1.final,
              auto_replan |-> NoReplan,
              metrics |-> Metrics(p1.steps, p1.steps)]
        ELSE IF PlanError(t.planned[2]) # None
        THEN ErrorResponse(PlanError(t.planned[2]))
        ELSE IF t.oracle[2].kind # "object" THEN ErrorResponse(t.oracle[2].kind)
        ELSE
        LET p2 == AlonePass(task2, t.planned[2], t.exec[2], t.repair[2], t.oracle[2])
            kept == IF p2.final.completeness = "complete" THEN p2 ELSE p1
        IN  [status |-> "ok", detail |-> None, task |-> Task,
             plan |-> kept.plan, steps |-> kept.steps, final |-> kept.final,
             auto_replan |->
                [present |-> TRUE, triggered |-> TRUE,
                 reason |-> "Previous attempt incomplete", task |-> task2,
                 plan |-> p2.plan, steps |-> p2.steps, final |-> p2.final],
             metrics |-> Metrics(p1.steps, kept.steps)]

\* C26: two runs that go through the shared planner, executor and verifier
\* at the same time do not interfere: in every interleaving of their steps,
\* the response of each run that has ended is the response it would
\* produce alone with the tool and oracle outcomes it got
C26_RunsDoNotInterfere ==
    \A r \in Runs :
        pc[r] \in {"done", "failed"} => response[r] = AloneResponse(hist[r])

\* both runs have ended with different outcomes: run 1 after one pass
\* whose first tool call succeeded, run 2 after a replan pass
C26_Witness ==
    /\ pc[1] = "done"
    /\ pc[2] = "done"
    /\ Len(hist[1].exec) = 1
    /\ Len(hist[2].exec) = 2
    /\ hist[1].exec[1][1].status = "success"
    /\ hist[2].exec[1][1].status = "error"
    /\ response[1].steps # response[2].steps
    /\ response[2].auto_replan.present

---------------------------------------------------------------------------
(* Properties of Spec: the order of the stages *)

\* one step of run_task in which a stage is called or the run is decided
StageOrderStep ==
    /\ hist'.nCreatePlan # hist.nCreatePlan =>
        /\ hist.nCreatePlan = pass - 1
        /\ hist.nExecute = pass - 1
        /\ hist.nVerify = pass - 1
    /\ hist'.nExecute # hist.nExecute =>
        /\ hist.nCreatePlan = pass
        /\ hist.nExecute = pass - 1
        /\ PlanError(hist.planned) = None
        /\ plan = NormalizePlan(hist.planned, hist.plannerTask)
    /\ hist'.nVerify # hist.nVerify =>
        /\ hist.nExecute = pass
        /\ hist.nVerify = pass - 1
        /\ plan = NormalizePlan(hist.planned, hist.plannerTask)
        /\ Len(step_results) = Len(plan.steps)
        /\ \A i \in 1..Len(plan.steps) :
              /\ step_results[i].step_id = plan.steps[i].id
              /\ step_results[i].tool = plan.steps[i].tool
              /\ step_results[i].status \in {"success", "error"}
    /\ (pass' # pass \/ pc' = "done") =>
        /\ pc = "verified"
        /\ hist.nVerify = pass
        /\ hist.nOracle = 2 * pass
        /\ final.kind = "object"
        /\ final = Enrich(plan, updated, AsFinal(hist.oracle))
    /\ pass' # pass => (pass = 1 /\ pass' = 2)

\* C27: a run goes through its stages in the order plan, execute, verify,
\* then optionally once more plan, execute, verify for the replan, then the
\* response.  execute is called only on the plan create_plan has just
\* returned, verify only on the results execute has returned for that
\* plan, and the replan decision and the response come only after the
\* verify of the pass has returned a Verification.
C27_StageOrder ==
    [][StageOrderStep]_vars

\* a run has ended after two passes: two plans, two executions and two
\* verifications
C27_Witness ==
    /\ pc = "done"
    /\ pass = 2
    /\ hist.nCreatePlan = 2
    /\ hist.nExecute = 2
    /\ hist.nVerify = 2
    /\ Len(plan.steps) = 1
    /\ Len(first.plan.steps) = 2

---------------------------------------------------------------------------
(* Properties of CompactSpec *)

\* the prompt of the verifier's oracle has been built
PromptBuilt == pc \in {"verified", "failed"}

\* C30: the compacted list has one entry per repaired result, in the same
\* order; an output that is a mapping with items is forwarded with at most
\* its first 5 items, in their order, and every other output is forwarded
\* unchanged; the repaired results themselves are left as they are, so the
\* sources hold the url of every item of the full lists
C30_Compaction ==
    PromptBuilt =>
        /\ Len(hist.seen) = Len(updated)
        /\ \A i \in 1..Len(updated) :
              LET r == updated[i]
                  c == hist.seen[i]
              IN  /\ c.step_id = r.step_id
                  /\ c.tool = r.tool
                  /\ c.status = r.status
                  /\ c.error = r.error
                  /\ IF r.output \in {"gh_3", "gh_mixed", "gh_none", "gh_7"}
                     THEN /\ c.output.kind = "compact"
                          /\ Len(c.output.items) <= 5
                          /\ Len(c.output.items) <= Len(Items(r.output))
                          /\ Len(Items(r.output)) >= 5 => Len(c.output.items) = 5
                          /\ Len(Items(r.output)) <= 5 =>
                                Len(c.output.items) = Len(Items(r.output))
                          /\ \A k \in 1..Len(c.output.items) :
                                /\ c.output.items[k].name = Items(r.output)[k].name
                                /\ c.output.items[k].url = Items(r.output)[k].url
                                /\ c.output.items[k].stars = Items(r.output)[k].stars
                          /\ pc = "verified" =>
                                \A k \in 1..Len(Items(r.output)) :
                                    Items(r.output)[k].url \in Range(final.sources)
                     ELSE /\ c.output.kind = "same"
                          /\ c.output.raw = r.output

\* a search of seven items and a forecast were verified: the oracle was
\* shown five of the items and the forecast as it is, and the sources hold
\* the url of the seventh item
C30_Witness ==
    /\ pc = "verified"
    /\ Len(updated) = 2
    /\ updated[1].output = "gh_7"
    /\ updated[2].output = "wx_full"
    /\ Len(hist.seen[1].output.items) = 5
    /\ hist.seen[1].output.items[5].name = "r5"
    /\ hist.seen[2].output.raw = "wx_full"
    /\ "https://github.com/o/r7" \in Range(final.sources)

---------------------------------------------------------------------------
(* Properties of VerifySpec: the repair comes first *)

\* the oracle of verify has been asked
OracleAsked == pc \in {"verified", "failed"}

\* the positions of the repaired results whose status is not success
NotSuccess == {i \in 1..Len(updated) : updated[i].status # "success"}

\* C28: in one verify call retry_failed is called exactly once and has
\* returned before the oracle is asked; the results the oracle is shown and
\* the results the enrichment works on are the repaired ones; the
\* Verification is downgraded exactly when a repaired result is not a
\* success
C28_RepairBeforeOracle ==
    OracleAsked =>
        /\ hist.nVerify = 1
        /\ hist.nRetry = 1
        /\ hist.nOracle = 1
        /\ ~retrying
        /\ Len(updated) = Len(step_results)
        /\ Len(hist.seen) = Len(updated)
        /\ \A i \in 1..Len(updated) :
              /\ hist.seen[i].step_id = updated[i].step_id
              /\ hist.seen[i].status = updated[i].status
              /\ hist.seen[i].error = updated[i].error
              /\ hist.seen[i].output.kind = "compact" <=> updated[i].status = "success"
        /\ pc = "verified" =>
              /\ \A i \in 1..Len(updated) :
                    (updated[i].status = "success" /\ updated[i].tool = "github_search")
                        => "https://github.com/o/a" \in Range(final.sources)
              /\ (\A i \in 1..Len(updated) : updated[i].status # "success")
                    => final.sources = << >>
              /\ NotSuccess # {} =>
                    /\ final.completeness = "partial"
                    /\ FixedLimitation \in Range(final.limitations.items)
              /\ NotSuccess = {} =>
                    /\ final.completeness = hist.oracle.completeness
                    /\ final.limitations = hist.oracle.limitations

\* verify was given a failed search, the re-run succeeded, and the oracle
\* was shown the success; nothing is missing, so the oracle's completeness
\* is kept
C28_Witness ==
    /\ pc = "verified"
    /\ Len(step_results) = 1
    /\ step_results[1].status = "error"
    /\ updated[1].status = "success"
    /\ hist.seen[1].status = "success"
    /\ hist.seen[1].output.kind = "compact"
    /\ hist.nRetry = 1
    /\ hist.oracle.completeness = "complete"
    /\ final.completeness = "complete"
    /\ "https://github.com/o/a" \in Range(final.sources)

---------------------------------------------------------------------------
(* Properties of Spec: the requests to the oracle *)

\* C29: every create_plan call and every verify call issues exactly one
\* structured request to the oracle, so a run issues at most four; when a
\* request fails, the stage fails and the run ends with the error, with no
\* second request
C29_OneRequestPerStage ==
    /\ hist.nOracle <= 4
    /\ hist.nOracle =
          hist.nCreatePlan + hist.nVerify - (IF pc = "retry" THEN 1 ELSE 0)
    /\ hist.nCreatePlan <= 2
    /\ hist.nVerify <= 2
    /\ (hist.planned.kind = "raise" \/ hist.oracle.kind = "raise") =>
          /\ pc = "failed"
          /\ response.status = "error"
          /\ response.detail \in {"LLM did not return valid JSON", "raise"}
          /\ response.final = NoFinal
    /\ pc = "failed" => ~ENABLED Next

\* the fourth request of a run, the one of the replan's verify, failed and
\* the run ended with the error
C29_Witness ==
    /\ pc = "failed"
    /\ pass = 2
    /\ hist.nOracle = 4
    /\ hist.nCreatePlan = 2
    /\ hist.nVerify = 2
    /\ hist.oracle.kind = "raise"
    /\ response.status = "error"

---------------------------------------------------------------------------
(* Properties of PoolSpec: the lifetime of the workers *)

\* C31: all concurrency is scoped to one execute call: no tool call is in
\* progress outside an execute call, and when execute has returned every
\* step's tool call has completed, every result slot is filled and no
\* worker is still running
C31_ConcurrencyScopedToExecute ==
    /\ pc \notin {"execute_inline", "execute_pool"} => Running = {}
    /\ pc = "call_verify" =>
          /\ Len(step_results) = NumSteps
          /\ \A i \in 1..NumSteps :
                /\ stepState[i] \in {"finished", "collected"}
                /\ future[i] # NoResult
                /\ hist.execCalls[i] = 1
                /\ step_results[i] = future[i]
                /\ NumSteps >= 2 =>
                      (stepState[i] = "collected" /\ results[i] # NoResult)

\* execute has returned for a plan of more steps than the pool has workers,
\* after the last step's call failed and was collected before the first
C31_Witness ==
    /\ pc = "call_verify"
    /\ NumSteps = 5
    /\ hist.outOfOrder
    /\ step_results[5].status = "error"
    /\ step_results[1].status = "success"
    /\ Running = {}

---------------------------------------------------------------------------
(* Properties of DecideSpec: the replan decision after a failed repair *)

\* C32: when a step is still in error after the repair retry of the first
\* pass, the Verification is partial with the fixed limitation and the
\* replan is attempted, never skipped; a partial first pass is returned
\* without a replan only when the oracle itself reported partial with no
\* limitations and no result of execute has status error
C32_FailedRepairAlwaysReplans ==
    (pc = "verified" /\ pass = 1) =>
        /\ StillFailing =>
              /\ final.completeness = "partial"
              /\ FixedLimitation \in Range(final.limitations.items)
              /\ ENABLED Replan
              /\ ~ENABLED Respond
        /\ (final.completeness = "partial" /\ ENABLED Respond) =>
              /\ ~ENABLED Replan
              /\ hist.oracle.completeness = "partial"
              /\ hist.oracle.limitations.items = << >>
              /\ \A i \in 1..Len(step_results) : step_results[i].status # "error"

\* the replan pass has started after a first pass in which a step was still
\* in error after its retry, although the oracle had answered complete with
\* no limitations
C32_Witness ==
    /\ pc = "call_create_plan"
    /\ pass = 2
    /\ hist.oracle = NoFinal
    /\ StillFailing
    /\ first.final.completeness = "partial"
    /\ first.final.limitations.items = <<FixedLimitation>>
    /\ first.replan_task # None

---------------------------------------------------------------------------
(* Properties of ReplanRunSpec: one pass per response *)

\* the plan, steps and final of the response are those of the pass that
\* ended last
FromLastPass ==
    /\ response.plan = plan
    /\ response.steps = step_results
    /\ response.final = final

\* the plan, steps and final of the response are those of the first of two
\* passes
FromFirstPass ==
    /\ pass = 2
    /\ response.plan = first.plan
    /\ response.steps = first.steps
    /\ response.final = first.final

\* C33: the plan, steps and final of a response come from the same pass:
\* all three from the first pass or all three from the replan pass, and
\* the steps are the results of the steps of that plan, position by position
C33_OnePassPerResponse ==
    pc = "done" =>
        /\ FromLastPass \/ FromFirstPass
        /\ Len(response.steps) = Len(response.plan.steps)
        /\ \A i \in 1..Len(response.steps) :
              /\ response.steps[i].step_id = response.plan.steps[i].id
              /\ response.steps[i].tool = response.plan.steps[i].tool

\* a complete replan of one step was returned after a first pass of two
\* steps: the response has the one step of the replan's plan
C33_Witness ==
    /\ pc = "done"
    /\ pass = 2
    /\ Len(first.plan.steps) = 2
    /\ Len(response.plan.steps) = 1
    /\ Len(response.steps) = 1
    /\ response.final.completeness = "complete"
    /\ response.plan.goal # first.plan.goal

---------------------------------------------------------------------------
(* Properties of Spec: the metrics *)

\* the sum of the duration_ms of the results rs
RECURSIVE TotalDuration(_)
TotalDuration(rs) ==
    IF rs = << >> THEN 0 ELSE Head(rs).duration_ms + TotalDuration(Tail(rs))

\* C34: the metrics of a response describe the returned steps: tool_count
\* is their number and tool_execution_ms is the sum of their duration_ms,
\* also when the replan's outcome is the one returned.
C34_MetricsOfReturnedSteps ==
    pc = "done" =>
        /\ response.metrics.tool_count = Len(response.steps)
        /\ response.metrics.tool_execution_ms = TotalDuration(response.steps)

---------------------------------------------------------------------------
(* Properties of Spec: a failure in the replan pass *)

\* a stage of the replan pass has failed: the planner's oracle failed or its
\* plan was rejected, or the verifier's oracle failed
ReplanStageFailed ==
    /\ pass = 2
    /\ \/ hist.nCreatePlan = 2 /\ PlanError(hist.planned) # None
       \/ hist.nVerify = 2 /\ hist.oracle.kind \in {"raise", "nonobject"}

\* C35: a stage-level failure in the replan pass fails the whole run with
\* a single error: the run ends there, no response is returned, and the
\* partial outcome of the first pass is not in what the caller gets
C35_ReplanFailureFailsRun ==
    /\ ReplanStageFailed =>
          /\ pc = "failed"
          /\ ~ENABLED Next
    /\ (pc = "failed" /\ pass = 2) =>
          /\ ReplanStageFailed
          /\ first.final.completeness = "partial"
          /\ response.status = "error"
          /\ response.detail # None
          /\ response.plan = NoPlan
          /\ response.steps = << >>
          /\ response.final = NoFinal
          /\ response.auto_replan = NoReplan

\* the planner rejected the corrective plan for its unknown tool after a
\* partial first pass of one successful step: the run ended with the error
C35_Witness ==
    /\ pc = "failed"
    /\ pass = 2
    /\ hist.nCreatePlan = 2
    /\ response.detail = "Unknown tool in plan: shell"
    /\ Len(first.steps) = 1
    /\ first.steps[1].status = "success"
    /\ first.final.completeness = "partial"
    /\ response.final = NoFinal

---------------------------------------------------------------------------
(* Properties of NarrateSpec: the two overrides exclude each other *)

\* the answer is the composition of the repository and weather sentences
ComposedAnswer ==
    \E i \in 1..Len(updated) :
        /\ updated[i].status = "success"
        /\ updated[i].tool \in {"github_search", "weather_current"}
        /\ final.final_answer # hist.oracle.final_answer

\* C36: the two narration overrides never both apply in one verify call.
\* When the plan's tools are exactly the text-generation tool, the answer
\* set from the generated text is not replaced by the composition; when the
\* plan mixes text-generation with another tool, the single-tool override
\* does not fire: data stays the oracle's and the sources are not emptied
C36_OverridesExclusive ==
    VerifyReturned =>
        /\ final.data.kind = "introduction_speech" =>
              /\ ToolsOfPlan = {"llm_generate"}
              /\ FirstSpeech # 0
              /\ final.final_answer = Chars2Str(Text(updated[FirstSpeech].output))
              /\ final.sources = << >>
              /\ ~ComposedAnswer
        /\ ("llm_generate" \in ToolsOfPlan /\ ToolsOfPlan # {"llm_generate"}) =>
              /\ final.data = hist.oracle.data
              /\ ComposedAnswer \/ final.final_answer = hist.oracle.final_answer
              /\ \A i \in 1..Len(updated) :
                    (updated[i].status = "success" /\ updated[i].tool # "llm_generate")
                        => final.sources # << >>
        /\ ComposedAnswer => final.data = hist.oracle.data

\* a plan of a text-generation step and a weather step, both successful:
\* the answer is the weather sentence, not the generated text, and data is
\* the oracle's
C36_Witness ==
    /\ VerifyReturned
    /\ Len(updated) = 2
    /\ updated[1].output = "text_hello"
    /\ updated[2].output = "wx_full"
    /\ final.final_answer =
          "Current weather in Pune, India: Clear sky, 30degC, wind 12 kph."
    /\ final.data = hist.oracle.data
    /\ final.sources # << >>

---------------------------------------------------------------------------
(* Properties of Spec: verify leaves its inputs as they are *)

\* the results are those the _run_step calls of execute returned for the
\* current plan
AsExecuteReturned(rs) ==
    /\ Len(rs) = Len(future)
    /\ \A i \in 1..Len(rs) : rs[i] = future[i]

\* C37: verify leaves its inputs unchanged: during and after verify the
\* plan is the one create_plan returned and the step results are the ones
\* execute returned; the steps of the response and the error summary of
\* the corrective task are built from those results, so a step the repair
\* retry fixed is still there with status error
C37_VerifyLeavesInputs ==
    /\ pc \in {"retry", "verified"} =>
          /\ plan = NormalizePlan(hist.planned, hist.plannerTask)
          /\ AsExecuteReturned(step_results)
    /\ (pc = "done" /\ pass = 1) => AsExecuteReturned(response.steps)
    /\ (pc = "done" /\ pass = 2) =>
          /\ AsExecuteReturned(response.auto_replan.steps)
          /\ response.steps \in {first.steps, response.auto_replan.steps}
    /\ (pc = "call_create_plan" /\ pass = 2) =>
          /\ AsExecuteReturned(first.steps)
          /\ \A i \in 1..Len(first.steps) :
                first.steps[i].status = "success" => i \in first.ownOk

\* the replan pass starts after a first pass whose only step failed in
\* execute and succeeded in the repair: the corrective task still names
\* its error
C37_Witness ==
    /\ pc = "call_create_plan"
    /\ pass = 2
    /\ Len(first.steps) = 1
    /\ first.steps[1].status = "error"
    /\ updated[1].status = "success"
    /\ first.replan_task =
          "task\n\n"
          \o "Fix missing or failed info from the previous attempt. "
          \o "Use only the necessary tools. "
          \o "Errors: github_search: HTTPError Limitations: no forecast"

---------------------------------------------------------------------------
(* LLMClient.chat_json: the request loop of the structured-response
   operation.  The state is kept in pc and hist; a message content is a
   sequence of characters. *)

\* the largest max_retries argument and the longest message content
MaxChatRetries == 3
MaxContentLen == 3

\* the default of the max_retries parameter
DefaultMaxRetries == 2

\* the message contents: texts of braces, a digit and any other letter
Contents == SeqsUpTo({"{", "}", "1", "x"}, MaxContentLen)

\* json.loads on a text of these characters: a number or the empty object
\* is a document, every other text raises JSONDecodeError (<< >>)
JsonLoads(cs) ==
    IF cs = <<"{", "}">>
    THEN <<[type |-> "dict", text |-> cs]>>
    ELSE IF cs # << >> /\ \A i \in 1..Len(cs) : cs[i] = "1"
         THEN <<[type |-> "int", text |-> cs]>>
         ELSE << >>

\* _extract_json: the text from the first "{" to the last "}" after it,
\* parsed; None (<< >>) if there is no such text or it does not parse
ExtractJson(cs) ==
    LET opens == {i \in 1..Len(cs) : cs[i] = "{"}
        first_open == CHOOSE i \in opens : \A k \in opens : i <= k
        closes == {j \in 1..Len(cs) : cs[j] = "}" /\ j > first_open}
        last_close == CHOOSE j \in closes : \A k \in closes : k <= j
    IN  IF opens = {} THEN << >>
        ELSE IF closes = {} THEN << >>
        ELSE JsonLoads(SubSeq(cs, first_open, last_close))

\* message.content or ""
ContentOf(m) == IF m = << >> THEN << >> ELSE m[1]

\* a message content is None or a string
MessageContents == {<< >>} \cup {<<cs>> : cs \in Contents}

\* a variant with one more iteration
AttemptsOneMore(max_retries) == max_retries + 2

\* range(max_retries + 1)
Attempts(max_retries) == max_retries + 1

\* chat_json is called
ChatInit ==
    /\ Idle
    /\ pc = "chat_loop"
    /\ plan = NoPlan
    /\ step_results = << >>
    /\ \E n \in 0..MaxChatRetries :
          hist = [max_retries |-> n, nRequests |-> 0, content |-> << >>,
                  returned |-> << >>, error |-> None]

ChatFrame ==
    UNCHANGED <<pass, plan, stepState, future, results, step_results,
                updated, retrying, final, first, response>>

\* an iteration whose create call raises: the exception leaves chat_json
ChatApiError ==
    /\ pc = "chat_loop"
    /\ hist.nRequests < Attempts(hist.max_retries)
    /\ pc' = "chat_raised"
    /\ hist' = [hist EXCEPT !.nRequests = @ + 1, !.error = "APIError"]
    /\ ChatFrame

\* an iteration whose content parses: json.loads returns
ChatReturnParsed(m) ==
    /\ pc = "chat_loop"
    /\ hist.nRequests < Attempts(hist.max_retries)
    /\ JsonLoads(ContentOf(m)) # << >>
    /\ pc' = "chat_returned"
    /\ hist' = [hist EXCEPT !.nRequests = @ + 1,
                            !.content = ContentOf(m),
                            !.returned = JsonLoads(ContentOf(m))]
    /\ ChatFrame

\* an iteration whose content does not parse but holds an object
ChatReturnExtracted(m) ==
    /\ pc = "chat_loop"
    /\ hist.nRequests < Attempts(hist.max_retries)
    /\ JsonLoads(ContentOf(m)) = << >>
    /\ ExtractJson(ContentOf(m)) # << >>
    /\ pc' = "chat_returned"
    /\ hist' = [hist EXCEPT !.nRequests = @ + 1,
                            !.content = ContentOf(m),
                            !.returned = ExtractJson(ContentOf(m))]
    /\ ChatFrame

\* an iteration whose content neither parses nor holds an object
ChatRetry(m) ==
    /\ pc = "chat_loop"
    /\ hist.nRequests < Attempts(hist.max_retries)
    /\ JsonLoads(ContentOf(m)) = << >>
    /\ ExtractJson(ContentOf(m)) = << >>
    /\ hist' = [hist EXCEPT !.nRequests = @ + 1, !.content = ContentOf(m)]
    /\ UNCHANGED pc
    /\ ChatFrame

\* the loop ends without a return
ChatExhausted ==
    /\ pc = "chat_loop"
    /\ hist.nRequests >= Attempts(hist.max_retries)
    /\ pc' = "chat_raised"
    /\ hist' = [hist EXCEPT !.error = "ValueError: LLM did not return valid JSON"]
    /\ ChatFrame

ChatRequest ==
    \/ ChatApiError
    \/ \E m \in MessageContents : ChatReturnParsed(m)
    \/ \E m \in MessageContents : ChatReturnExtracted(m)
    \/ \E m \in MessageContents : ChatRetry(m)

ChatNext ==
    \/ ChatRequest
    \/ ChatExhausted

ChatJsonSpec == ChatInit /\ [][ChatNext]_vars

---------------------------------------------------------------------------
(* Properties of ChatJsonSpec: the request budget *)

Recoverable(cs) == JsonLoads(cs) # << >> \/ ExtractJson(cs) # << >>

\* C38: chat_json makes at most max_retries + 1 requests (3 with the
\* default); it returns the value parsed or extracted from the first
\* content that yields one and makes no request after it; it raises
\* "LLM did not return valid JSON" once max_retries + 1 contents yielded
\* nothing
C38_RequestBudget ==
    /\ hist.nRequests <= hist.max_retries + 1
    /\ hist.max_retries = DefaultMaxRetries => hist.nRequests <= 3
    /\ (pc = "chat_loop" /\ hist.nRequests > 0) => ~Recoverable(hist.content)
    /\ (pc = "chat_loop" /\ hist.nRequests < hist.max_retries + 1) =>
          /\ ENABLED ChatRequest
          /\ ~ENABLED ChatExhausted
    /\ (pc = "chat_loop" /\ hist.nRequests = hist.max_retries + 1) =>
          /\ ~ENABLED ChatRequest
          /\ ENABLED ChatExhausted
    /\ pc = "chat_returned" =>
          /\ Recoverable(hist.content)
          /\ hist.returned =
                IF JsonLoads(hist.content) # << >>
                THEN JsonLoads(hist.content)
                ELSE ExtractJson(hist.content)
          /\ ~ENABLED ChatNext
    /\ (pc = "chat_raised" /\ hist.error # "APIError") =>
          /\ hist.error = "ValueError: LLM did not return valid JSON"
          /\ hist.nRequests = hist.max_retries + 1
          /\ ~Recoverable(hist.content)
          /\ hist.returned = << >>
          /\ ~ENABLED ChatNext

\* with the default budget two contents yield nothing and the third, text
\* before an object, is returned as that object
C38_Witness ==
    /\ pc = "chat_returned"
    /\ hist.max_retries = DefaultMaxRetries
    /\ hist.nRequests = 3
    /\ hist.content = <<"x", "{", "}">>
    /\ hist.returned = <<[type |-> "dict", text |-> <<"{", "}">>]>>

====
